---- MODULE Spec2Model ----
(***************************************************************************)
(* Model of the helius-cli webhook commands (src/commands/webhooks.ts),    *)
(* the API client (src/api.ts) and the collection lookup they share.       *)
(*                                                                         *)
(* A JavaScript string is modelled as a sequence of one-character strings, *)
(* so that split, trim and toUpperCase are computed as the code computes   *)
(* them.  A command runs as one sequential async function: the position of *)
(* the run is `pc`, and the steps are cut at the awaits (network calls and *)
(* prompts) and at the validation stages between them.  commander has     *)
(* parsed the options before the action runs; an option gets its value     *)
(* where the action first reads it and keeps it in `options` from then on, *)
(* so that a run that ends early is one run for every value of the options *)
(* it never looked at.                                                     *)
(***************************************************************************)
EXTENDS Integers, Sequences, FiniteSets, TLC

\* ------------------------------------------------------------------------
\* Bounds of the model
\* ------------------------------------------------------------------------

\* most comma-separated entries of a --types value
MaxTypeTokens == 2

\* most comma-separated entries of an address list passed or typed by the user
MaxAddrTokens == 2

\* most pages a collection of the model spans
MaxPages == 3

\* ------------------------------------------------------------------------
\* Strings
\* ------------------------------------------------------------------------

\* the JavaScript value undefined (an option that was not passed)
undefined == <<"undefined">>

\* an option the action has not read yet
unread == <<"unread">>

LowerCase ==
  <<"a","b","c","d","e","f","g","h","i","j","k","l","m",
    "n","o","p","q","r","s","t","u","v","w","x","y","z">>

UpperCase ==
  <<"A","B","C","D","E","F","G","H","I","J","K","L","M",
    "N","O","P","Q","R","S","T","U","V","W","X","Y","Z">>

WhiteSpace == {" ", "\t", "\n"}

\* String.prototype.toUpperCase
toUpperCase(s) ==
  [i \in 1..Len(s) |->
     IF \E k \in 1..26 : LowerCase[k] = s[i]
     THEN UpperCase[CHOOSE k \in 1..26 : LowerCase[k] = s[i]]
     ELSE s[i]]

RECURSIVE trimStart(_)
trimStart(s) ==
  IF s /= <<>> /\ Head(s) \in WhiteSpace THEN trimStart(Tail(s)) ELSE s

RECURSIVE trimEnd(_)
trimEnd(s) ==
  IF s /= <<>> /\ s[Len(s)] \in WhiteSpace
  THEN trimEnd(SubSeq(s, 1, Len(s) - 1))
  ELSE s

\* String.prototype.trim
trim(s) == trimEnd(trimStart(s))

\* String.prototype.split(sep) for a one-character separator: the pieces
\* between the separators, so that the empty string gives one empty piece
RECURSIVE split(_, _)
split(s, sep) ==
  IF \E i \in 1..Len(s) : s[i] = sep
  THEN LET i == CHOOSE j \in 1..Len(s) :
                  s[j] = sep /\ \A k \in 1..(j - 1) : s[k] /= sep
       IN  <<SubSeq(s, 1, i - 1)>> \o split(SubSeq(s, i + 1, Len(s)), sep)
  ELSE <<s>>

\* Array.prototype.includes
includes(list, x) == \E i \in 1..Len(list) : list[i] = x

\* JavaScript truthiness of an optional string
truthy(v) == v /= undefined /\ v /= <<>>

\* decimal digits of a natural number
DigitChars == <<"0","1","2","3","4","5","6","7","8","9">>

RECURSIVE Digits(_)
Digits(n) ==
  IF n < 10
  THEN <<DigitChars[n + 1]>>
  ELSE Digits(n \div 10) \o <<DigitChars[(n % 10) + 1]>>

\* the strings made of 1..n entries of T with a comma between them
RECURSIVE Lists(_, _)
Lists(T, n) ==
  IF n = 1
  THEN T
  ELSE LET shorter == Lists(T, n - 1)
       IN  shorter \cup {s \o <<",">> \o t : s \in shorter, t \in T}

\* ------------------------------------------------------------------------
\* Constants of the program
\* ------------------------------------------------------------------------

TRANSACTION_TYPES ==
  << <<"A","N","Y">>,
     <<"N","F","T","_","S","A","L","E">>,
     <<"N","F","T","_","L","I","S","T","I","N","G">>,
     <<"N","F","T","_","C","A","N","C","E","L","_","L","I","S","T","I","N","G">>,
     <<"N","F","T","_","M","I","N","T">>,
     <<"N","F","T","_","A","U","C","T","I","O","N","_","C","R","E","A","T","E","D">>,
     <<"N","F","T","_","B","I","D">>,
     <<"N","F","T","_","A","U","C","T","I","O","N","_","C","O","M","P","L","E","T","E">>,
     <<"S","W","A","P">>,
     <<"S","W","A","P","_","S","O","L">>,
     <<"S","W","A","P","_","T","O","K","E","N">>,
     <<"T","O","K","E","N","_","M","I","N","T">>,
     <<"T","O","K","E","N","_","B","U","R","N">>,
     <<"T","R","A","N","S","F","E","R">>,
     <<"S","O","L","_","T","R","A","N","S","F","E","R">>,
     <<"S","T","A","K","E">>,
     <<"S","T","A","K","E","_","D","E","L","E","G","A","T","I","O","N">>,
     <<"U","N","S","T","A","K","E">>,
     <<"V","O","T","E">>,
     <<"U","N","K","N","O","W","N">> >>

WEBHOOK_TYPES ==
  << <<"r","a","w">>,
     <<"r","a","w","D","e","v","n","e","t">>,
     <<"e","n","h","a","n","c","e","d">>,
     <<"e","n","h","a","n","c","e","d","D","e","v","n","e","t">>,
     <<"d","i","s","c","o","r","d">>,
     <<"d","i","s","c","o","r","d","D","e","v","n","e","t">> >>

TXN_STATUS_OPTIONS ==
  << <<"a","l","l">>,
     <<"s","u","c","c","e","s","s">>,
     <<"f","a","i","l","e","d">> >>

\* the fourth choice of the txnStatus question
SkipChoice ==
  <<"S","k","i","p"," ","(","d","o","n","'","t"," ",
    "f","i","l","t","e","r"," ","b","y"," ","s","t","a","t","u","s",")">>

\* the limit of one getAssetsByGroup request
Limit == 1000

\* ------------------------------------------------------------------------
\* State
\* ------------------------------------------------------------------------

VARIABLES
  cmd,                  \* the command of this run
  options,              \* the options of the command, as far as they were read
  pc,                   \* position of the run
  exitCode,             \* exit status of the process, -1 while it runs
  out,                  \* what was shown to the user, oldest first
  asked,                \* the prompts asked, oldest first
  net,                  \* the network requests issued, oldest first
  served,               \* the responses of the collection endpoint, oldest first
  caller,               \* who called getNftAddressesFromCollection
  collectionAddress,    \* its argument
  page,                 \* its local page
  hasMorePages,         \* its local hasMorePages
  nftAddresses,         \* its local nftAddresses, then the caller's
  thrown,               \* message of the error being thrown, "" if none
  result,               \* how the REST call of the command ended, "" before
  currentConfig,        \* the configuration of config.ts
  client,               \* the fields of the heliusApi singleton
  configFile,           \* the content of ~/.helius-cli/config.json
  configArgs,           \* arguments of the config set command
  webhookID,            \* argument of the delete command
  transactionTypes,     \* transactionTypes of the create action
  accountAddresses,     \* accountAddresses of the create action / the workflow
  prefilledAddresses,   \* parameter of promptForWebhookData
  collectionAddressesAdded,  \* local of promptForWebhookData
  basicAnswers,         \* answers to the basic questions
  webhookData           \* the draft handed to createWebhook

lookupVars == <<caller, collectionAddress, page, hasMorePages, nftAddresses,
                served>>

promptVars == <<prefilledAddresses, collectionAddressesAdded, basicAnswers>>

configVars == <<currentConfig, client, configFile, configArgs>>

vars == <<cmd, options, pc, exitCode, out, asked, net, thrown, result, webhookID,
          transactionTypes, accountAddresses, webhookData, configVars,
          lookupVars, promptVars>>

\* no value yet
none == [set |-> FALSE]

NoOptions ==
  [url |-> unread, type |-> unread, types |-> unread, addresses |-> unread,
   status |-> unread, authHeader |-> unread, collection |-> unread,
   interactive |-> unread, force |-> unread]

\* the API keys a configuration file or the environment holds: none, or one
ApiKeys == {<<>>, <<"k">>}

\* the base URL of the configuration
BaseUrl == <<"b">>

\* config.ts has loaded currentConfig and api.ts has built the heliusApi
\* singleton from it; no command has run yet
InitCommon ==
  /\ \E k \in ApiKeys : currentConfig = [apiKey |-> k, baseUrl |-> BaseUrl]
  /\ client = currentConfig
  /\ configFile = currentConfig
  /\ configArgs = none
  /\ webhookID = <<>>
  /\ transactionTypes = <<>>
  /\ options = NoOptions
  /\ pc = "start"
  /\ exitCode = -1
  /\ out = <<>>
  /\ asked = <<>>
  /\ net = <<>>
  /\ served = <<>>
  /\ caller = "none"
  /\ collectionAddress = <<>>
  /\ page = 0
  /\ hasMorePages = FALSE
  /\ nftAddresses = <<>>
  /\ thrown = ""
  /\ result = ""
  /\ accountAddresses = <<>>
  /\ prefilledAddresses = <<>>
  /\ collectionAddressesAdded = FALSE
  /\ basicAnswers = none
  /\ webhookData = none

\* ------------------------------------------------------------------------
\* getNftAddressesFromCollection
\* ------------------------------------------------------------------------

\* the ways an axios call fails: a response with a non-2xx status, no
\* response, or a request that could not be set up
AxiosFailures == {"response", "request", "setup"}

\* the message of the Error the collection lookup rethrows
LookupErrorMessage(failure) ==
  CASE failure = "response" -> "API Error: <status> - <body>"
    [] failure = "request"  -> "No response received from API"
    [] OTHER                -> "Error fetching NFT addresses: <message>"

\* what the collection endpoint answers to one page request
Responses(Sizes, Failures) ==
  [kind : {"error"}, failure : Failures, n : {0}]
    \cup [kind : {"noResult", "noItems"}, failure : {"none"}, n : {0}]
    \cup [kind : {"items"}, failure : {"none"}, n : Sizes]

\* the id of the i-th item of page p of collection c
ItemId(c, p, i) == c \o <<"/">> \o Digits(p) \o <<"/">> \o Digits(i)

\* result.items.map(item => item.id) of a response to the request of page p
PageAddresses(c, p, resp) == [i \in 1..resp.n |-> ItemId(c, p, i)]

\* the getAssetsByGroup request of one page
DasRequest(c, p) ==
  [api |-> "getAssetsByGroup", key |-> client.apiKey,
   body |-> [groupValue |-> c, page |-> p, limit |-> Limit]]

\* a check that forgets the missing result and the missing items field
NoItems_OnlyLength(resp) == resp.kind = "items" /\ resp.n = 0

\* !result || !result.items || result.items.length === 0
NoItems(resp) == resp.kind \in {"noResult", "noItems"} \/ resp.n = 0

\* a comparison that takes a full page for the last one
LastPage_Inclusive(n) == n <= Limit

\* result.items.length < 1000
LastPage(n) == n < Limit

\* the call: the locals before the loop
CallLookup(c, who) ==
  /\ caller' = who
  /\ collectionAddress' = c
  /\ page' = 1
  /\ hasMorePages' = TRUE
  /\ nftAddresses' = <<>>
  /\ served' = <<>>
  /\ pc' = "lookup"

\* a loop that stops after its second page
FetchPage_Capped(Sizes, Failures) ==
  /\ pc = "lookup"
  /\ hasMorePages
  /\ \E resp \in Responses(Sizes, Failures) :
       /\ (resp.kind = "items" /\ ~LastPage(resp.n)) => page < MaxPages
       /\ net' = Append(net, DasRequest(collectionAddress, page))
       /\ served' = Append(served, resp)
       /\ IF resp.kind = "error"
          THEN /\ thrown' = LookupErrorMessage(resp.failure)
               /\ pc' = "lookupThrew"
               /\ UNCHANGED <<page, hasMorePages, nftAddresses>>
          ELSE IF ~NoItems(resp) /\ resp.kind /= "items"
          THEN \* result.items.map on a missing result: a TypeError, which
               \* the catch rethrows as its third class
               /\ thrown' = LookupErrorMessage("setup")
               /\ pc' = "lookupThrew"
               /\ UNCHANGED <<page, hasMorePages, nftAddresses>>
          ELSE /\ thrown' = thrown
               /\ IF NoItems(resp)
                  THEN /\ hasMorePages' = FALSE
                       /\ UNCHANGED <<page, nftAddresses>>
                  ELSE /\ nftAddresses' = nftAddresses
                            \o PageAddresses(collectionAddress, page, resp)
                       /\ IF LastPage(resp.n) \/ page >= 2
                          THEN hasMorePages' = FALSE /\ page' = page
                          ELSE hasMorePages' = TRUE /\ page' = page + 1
               /\ pc' = IF hasMorePages' THEN "lookup" ELSE "lookupReturned"
  /\ UNCHANGED <<cmd, options, exitCode, out, asked, caller, result, webhookID,
                 collectionAddress, transactionTypes, accountAddresses,
                 webhookData, configVars, promptVars>>

\* one turn of the loop: the request of a page and what is done with its
\* response; an error leaves the loop and the function
FetchPage(Sizes, Failures) ==
  /\ pc = "lookup"
  /\ hasMorePages
  /\ \E resp \in Responses(Sizes, Failures) :
       /\ (resp.kind = "items" /\ ~LastPage(resp.n)) => page < MaxPages
       /\ net' = Append(net, DasRequest(collectionAddress, page))
       /\ served' = Append(served, resp)
       /\ IF resp.kind = "error"
          THEN /\ thrown' = LookupErrorMessage(resp.failure)
               /\ pc' = "lookupThrew"
               /\ UNCHANGED <<page, hasMorePages, nftAddresses>>
          ELSE IF ~NoItems(resp) /\ resp.kind /= "items"
          THEN \* result.items.map on a missing result: a TypeError, which
               \* the catch rethrows as its third class
               /\ thrown' = LookupErrorMessage("setup")
               /\ pc' = "lookupThrew"
               /\ UNCHANGED <<page, hasMorePages, nftAddresses>>
          ELSE /\ thrown' = thrown
               /\ IF NoItems(resp)
                  THEN /\ hasMorePages' = FALSE
                       /\ UNCHANGED <<page, nftAddresses>>
                  ELSE /\ nftAddresses' = nftAddresses
                            \o PageAddresses(collectionAddress, page, resp)
                       /\ IF LastPage(resp.n)
                          THEN hasMorePages' = FALSE /\ page' = page
                          ELSE hasMorePages' = TRUE /\ page' = page + 1
               /\ pc' = IF hasMorePages' THEN "lookup" ELSE "lookupReturned"
  /\ UNCHANGED <<cmd, options, exitCode, out, asked, caller, result, webhookID,
                 collectionAddress, transactionTypes, accountAddresses,
                 webhookData, configVars, promptVars>>

\* ------------------------------------------------------------------------
\* The lookup on its own
\* ------------------------------------------------------------------------

\* the collection addresses of the model
Collections == {<<"c">>, <<"d">>}

\* the page sizes the lookup is tried on
LookupSizes == {0, 1, 10, Limit - 1, Limit}

LookupCall ==
  /\ cmd = "lookup"
  /\ pc = "start"
  /\ \E c \in Collections : CallLookup(c, "lookup")
  /\ UNCHANGED <<cmd, options, exitCode, out, asked, net, thrown, result, webhookID,
                 transactionTypes, accountAddresses, webhookData, configVars,
                 promptVars>>

\* the caller takes the result, or the error
LookupEnd ==
  /\ cmd = "lookup"
  /\ pc \in {"lookupReturned", "lookupThrew"}
  /\ pc' = "done"
  /\ accountAddresses' = IF pc = "lookupReturned" THEN nftAddresses ELSE <<>>
  /\ exitCode' = IF pc = "lookupReturned" THEN 0 ELSE 1
  /\ UNCHANGED <<cmd, options, out, asked, net, thrown, result, webhookID,
                 transactionTypes, webhookData, configVars, lookupVars,
                 promptVars>>

InitLookup == InitCommon /\ cmd = "lookup"

NextLookup == LookupCall \/ FetchPage(LookupSizes, AxiosFailures) \/ LookupEnd

SpecLookup == InitLookup /\ [][NextLookup]_vars

\* ------------------------------------------------------------------------
\* Inputs of the commands
\* ------------------------------------------------------------------------

\* the value commander gives a flag that was passed
jsTrue == <<"true">>

FlagValues == {undefined, jsTrue}

CollectionValues == {undefined, <<"c">>}

UrlValues == {undefined, <<>>, <<"u">>}

TypeValues == {undefined, WEBHOOK_TYPES[1], <<"R","a","w">>}

StatusValues == {undefined, <<>>, TXN_STATUS_OPTIONS[1], <<"A","L","L">>}

AuthHeaderValues == {undefined, <<"h">>}

\* the entries --types is made of
RawTypeTokens ==
  { <<>>,
    <<"N","F","T","_","S","A","L","E">>,
    <<" ","s","w","a","p"," ">>,
    <<"B","O","G","U","S">> }

TypesValues == {undefined} \cup Lists(RawTypeTokens, MaxTypeTokens)

\* the entries an address list is made of
RawAddrTokens == { <<>>, <<"A">>, <<"B">>, <<" ","A"," ">> }

AddressesValues == {undefined} \cup Lists(RawAddrTokens, MaxAddrTokens)

\* what the user types at the address prompts
AddressInputs == Lists(RawAddrTokens, MaxAddrTokens)

\* what the user types at the other input prompts
TextInputs == {<<>>, <<" ">>, <<"u">>}

\* the answers to the questions of the basic form the model tries
WebhookTypeAnswers == {WEBHOOK_TYPES[1], WEBHOOK_TYPES[5]}

TxnStatusAnswers ==
  {TXN_STATUS_OPTIONS[i] : i \in 1..Len(TXN_STATUS_OPTIONS)} \cup {SkipChoice}

TransactionTypeAnswers ==
  { <<>>, <<TRANSACTION_TYPES[1]>>,
    <<TRANSACTION_TYPES[2], TRANSACTION_TYPES[9]>> }

WebhookIds == {<<"w">>}

\* the page sizes and the failures of the collection endpoint during a command
CommandSizes == {0, 2}

CommandFailures == {"request"}

\* ------------------------------------------------------------------------
\* Helpers of the commands
\* ------------------------------------------------------------------------

\* one prompt and the answer it got
Asked(name, answer) == [name |-> name, answer |-> answer]

\* the answers of a confirm prompt
jsFalse == <<"false">>

Confirms == {jsTrue, jsFalse}

\* [...a, ...b] with the operands swapped
concat_Swapped(a, b) == b \o a

\* [...a, ...b]
concat(a, b) == a \o b

\* one line shown to the user
Shown(stream, text, detail) ==
  [stream |-> stream, text |-> text, detail |-> detail]

\* the error of axios thrown on as it came
RequestErrorMessage_Raw(failure) == "<AxiosError>"

\* the message of the Error HeliusApiClient.request throws
RequestErrorMessage(failure) ==
  CASE failure = "response" -> "API Error: <status> - <body>"
    [] failure = "request"  -> "No response received from API"
    [] OTHER                -> "Error setting up request: <message>"

\* a request sent by HeliusApiClient.request
Request(api, data) == [api |-> api, key |-> client.apiKey, body |-> data]

\* a validate that accepts every input
NonBlank_Always(input) == TRUE

\* validate of the required input prompts: input.trim() !== ""
NonBlank(input) == trim(input) /= <<>>

\* s.split(",") without the trim
splitTrim_NoTrim(s) == split(s, ",")

\* s.split(",").map(a => a.trim())
splitTrim(s) ==
  LET parts == split(s, ",") IN [i \in 1..Len(parts) |-> trim(parts[i])]

\* options.types.split(",").map(t => t.trim().toUpperCase())
parseTransactionTypes(s) ==
  LET parts == split(s, ",")
  IN  [i \in 1..Len(parts) |-> toUpperCase(trim(parts[i]))]

\* a presence check that lets everything through
Missing_Never(v) == FALSE

\* !options.x
Missing(v) == ~truthy(v)

\* a validation that only looks at the first entry
InvalidTransactionType_First(types) ==
  ~includes(TRANSACTION_TYPES, types[1])

\* the loop over transactionTypes finds an entry outside TRANSACTION_TYPES
InvalidTransactionType(types) ==
  \E i \in 1..Len(types) : ~includes(TRANSACTION_TYPES, types[i])

\* process.exit(1) after messages
ExitWith(messages) ==
  /\ out' = out \o messages
  /\ exitCode' = 1
  /\ pc' = "done"

\* ------------------------------------------------------------------------
\* ensureConfig
\* ------------------------------------------------------------------------

\* how fs.writeFileSync of saveConfig ends; a failure is caught and logged
SaveOutcomes == {"written", "failed"}

\* saveConfig(config)
saveConfig(config, outcome) ==
  configFile' = IF outcome = "written" THEN config ELSE configFile

EnsureConfig ==
  /\ cmd \in {"create", "delete", "list", "get"}
  /\ pc = "start"
  /\ IF currentConfig.apiKey = <<>>
     THEN \E answer \in TextInputs :
            /\ NonBlank(answer)
            /\ asked' = Append(asked, Asked("apiKey", answer))
            /\ currentConfig' = [currentConfig EXCEPT !.apiKey = answer]
            /\ saveConfig(currentConfig', "written")
            /\ out' = out \o
                 << Shown("log", "Some configuration values are missing", ""),
                    Shown("log", "Configuration updated successfully!", "") >>
     ELSE UNCHANGED <<asked, currentConfig, configFile, out>>
  /\ pc' = "begin"
  /\ UNCHANGED <<cmd, options, exitCode, net, thrown, result, webhookID,
                 transactionTypes, accountAddresses, webhookData, client,
                 configArgs, lookupVars, promptVars>>

\* ------------------------------------------------------------------------
\* webhooks create: the collection option
\* ------------------------------------------------------------------------

CreateCollection ==
  /\ cmd = "create"
  /\ pc = "begin"
  /\ \E c \in CollectionValues :
       /\ options' = [options EXCEPT !.collection = c]
       /\ IF truthy(c)
          THEN CallLookup(c, "create")
          ELSE pc' = "mode" /\ UNCHANGED lookupVars
  /\ accountAddresses' = <<>>
  /\ UNCHANGED <<cmd, exitCode, out, asked, net, thrown, result, webhookID,
                 transactionTypes, webhookData, configVars, promptVars>>

\* the lookup result taken over without asking
CreateLookupReturned_NoConfirm ==
  /\ cmd = "create"
  /\ caller = "create"
  /\ pc = "lookupReturned"
  /\ out' = Append(out, Shown("succeed", "Found <n> NFTs in collection", ""))
  /\ accountAddresses' = nftAddresses
  /\ pc' = "mode"
  /\ UNCHANGED <<cmd, options, exitCode, asked, net, thrown, result, webhookID,
                 transactionTypes, webhookData, configVars, lookupVars,
                 promptVars>>

CreateLookupReturned ==
  /\ cmd = "create"
  /\ caller = "create"
  /\ pc = "lookupReturned"
  /\ IF Len(nftAddresses) = 0
     THEN /\ out' = out \o
               << Shown("succeed", "Found <n> NFTs in collection", ""),
                  Shown("log", "No NFTs found in the collection.", "") >>
          /\ asked' = asked
          /\ pc' = "mode"
     ELSE /\ out' = Append(out,
                      Shown("succeed", "Found <n> NFTs in collection", ""))
          /\ asked' = asked
          /\ pc' = "confirm"
  /\ UNCHANGED <<cmd, options, exitCode, net, thrown, result, webhookID,
                 transactionTypes, accountAddresses, webhookData, configVars,
                 lookupVars, promptVars>>

CreateConfirm ==
  /\ cmd = "create"
  /\ caller = "create"
  /\ pc = "confirm"
  /\ \E confirm \in Confirms :
       /\ asked' = Append(asked, Asked("confirm", confirm))
       /\ IF confirm = jsTrue
          THEN /\ accountAddresses' = nftAddresses
               /\ out' = Append(out,
                    Shown("log", "Added <n> NFT addresses to the webhook.", ""))
          ELSE /\ accountAddresses' = accountAddresses
               /\ out' = Append(out,
                    Shown("log", "NFT addresses not added.", ""))
  /\ pc' = "mode"
  /\ UNCHANGED <<cmd, options, exitCode, net, thrown, result, webhookID,
                 transactionTypes, webhookData, configVars, lookupVars,
                 promptVars>>

\* a catch that keeps what the lookup had collected
CreateLookupThrew_KeepCollected ==
  /\ cmd = "create"
  /\ caller = "create"
  /\ pc = "lookupThrew"
  /\ out' = out \o
       << Shown("fail", "Failed to fetch NFTs from collection:", thrown),
          Shown("log", "Continuing without collection NFTs...", "") >>
  /\ thrown' = ""
  /\ accountAddresses' = nftAddresses
  /\ pc' = "mode"
  /\ UNCHANGED <<cmd, options, exitCode, asked, net, result, webhookID,
                 transactionTypes, webhookData, configVars, lookupVars,
                 promptVars>>

CreateLookupThrew ==
  /\ cmd = "create"
  /\ caller = "create"
  /\ pc = "lookupThrew"
  /\ out' = out \o
       << Shown("fail", "Failed to fetch NFTs from collection:", thrown),
          Shown("log", "Continuing without collection NFTs...", "") >>
  /\ thrown' = ""
  /\ pc' = "mode"
  /\ UNCHANGED <<cmd, options, exitCode, asked, net, result, webhookID,
                 transactionTypes, accountAddresses, webhookData, configVars,
                 lookupVars, promptVars>>

\* a mode selection that checks --url before looking at --interactive
CreateMode_UrlFirst ==
  /\ cmd = "create"
  /\ pc = "mode"
  /\ \E i \in FlagValues, v \in UrlValues :
       /\ options' = [options EXCEPT !.interactive = i, !.url = v]
       /\ IF Missing(v)
          THEN /\ ExitWith(
                    << Shown("error", "Error: Webhook URL is required for non-interactive mode", "") >>)
               /\ prefilledAddresses' = prefilledAddresses
          ELSE /\ exitCode' = exitCode
               /\ IF truthy(i)
                  THEN /\ prefilledAddresses' = accountAddresses
                       /\ out' = Append(out,
                            Shown("log", "Create a new webhook:", ""))
                       /\ pc' = "basicQuestions"
                  ELSE /\ prefilledAddresses' = prefilledAddresses
                       /\ out' = out
                       /\ pc' = "checkUrl"
  /\ UNCHANGED <<cmd, asked, net, thrown, result, webhookID,
                 transactionTypes, accountAddresses, webhookData, configVars,
                 lookupVars, collectionAddressesAdded, basicAnswers>>

CreateMode ==
  /\ cmd = "create"
  /\ pc = "mode"
  /\ \E i \in FlagValues :
       /\ options' = [options EXCEPT !.interactive = i]
       /\ IF truthy(i)
          THEN /\ prefilledAddresses' = accountAddresses
               /\ out' = Append(out, Shown("log", "Create a new webhook:", ""))
               /\ pc' = "basicQuestions"
          ELSE /\ prefilledAddresses' = prefilledAddresses
               /\ out' = out
               /\ pc' = "checkUrl"
  /\ UNCHANGED <<cmd, exitCode, asked, net, thrown, result, webhookID,
                 transactionTypes, accountAddresses, webhookData, configVars,
                 lookupVars, collectionAddressesAdded, basicAnswers>>

\* ------------------------------------------------------------------------
\* webhooks create: command line mode
\* ------------------------------------------------------------------------

\* what is left alone by the checks of the command line mode
checkFrame == <<cmd, asked, net, thrown, result, webhookID, configVars, lookupVars,
                promptVars>>

CheckUrl ==
  /\ cmd = "create"
  /\ pc = "checkUrl"
  /\ \E v \in UrlValues :
       /\ options' = [options EXCEPT !.url = v]
       /\ IF Missing(v)
          THEN ExitWith(
                 << Shown("error", "Error: Webhook URL is required for non-interactive mode", ""),
                    Shown("log", "Use --url option or --interactive mode", "") >>)
          ELSE pc' = "checkType" /\ UNCHANGED <<out, exitCode>>
  /\ UNCHANGED <<transactionTypes, accountAddresses, webhookData, checkFrame>>

CheckType ==
  /\ cmd = "create"
  /\ pc = "checkType"
  /\ \E v \in TypeValues :
       /\ options' = [options EXCEPT !.type = v]
       /\ IF Missing(v)
          THEN ExitWith(
                 << Shown("error", "Error: Webhook type is required for non-interactive mode", ""),
                    Shown("log", "Use --type option or --interactive mode", "") >>)
          ELSE pc' = "checkTypes" /\ UNCHANGED <<out, exitCode>>
  /\ UNCHANGED <<transactionTypes, accountAddresses, webhookData, checkFrame>>

CheckTypes ==
  /\ cmd = "create"
  /\ pc = "checkTypes"
  /\ \E v \in TypesValues :
       /\ options' = [options EXCEPT !.types = v]
       /\ IF Missing(v)
          THEN ExitWith(
                 << Shown("error", "Error: Transaction types are required for non-interactive mode", ""),
                    Shown("log", "Use --types option or --interactive mode", "") >>)
          ELSE pc' = "parseTypes" /\ UNCHANGED <<out, exitCode>>
  /\ UNCHANGED <<transactionTypes, accountAddresses, webhookData, checkFrame>>

\* the catch of the create action: the message, then process.exit(1)
CreateCatch(message) ==
  ExitWith(<< Shown("error", "Error creating webhook:", message) >>)

ParseTypes ==
  /\ cmd = "create"
  /\ pc = "parseTypes"
  /\ IF options.types = undefined
     THEN \* undefined.split: a TypeError, caught by the catch of the action
          /\ CreateCatch("TypeError")
          /\ transactionTypes' = transactionTypes
     ELSE LET types == parseTransactionTypes(options.types)
          IN  /\ transactionTypes' = types
              /\ IF InvalidTransactionType(types)
                 THEN ExitWith(
                        << Shown("error", "Error: Invalid transaction type:", ""),
                           Shown("log", "Valid types are:", "") >>)
                 ELSE pc' = "addresses" /\ UNCHANGED <<out, exitCode>>
  /\ UNCHANGED <<options, accountAddresses, webhookData, checkFrame>>

\* the address stage without the requirement
CheckAddresses_Optional ==
  /\ cmd = "create"
  /\ pc = "addresses"
  /\ \E v \in AddressesValues :
       /\ options' = [options EXCEPT !.addresses = v]
       /\ accountAddresses' =
            IF truthy(v)
            THEN concat(accountAddresses, splitTrim(v)) ELSE accountAddresses
  /\ pc' = "validateType"
  /\ UNCHANGED <<out, exitCode, transactionTypes, webhookData, checkFrame>>

CheckAddresses ==
  /\ cmd = "create"
  /\ pc = "addresses"
  /\ \E v \in AddressesValues :
       /\ options' = [options EXCEPT !.addresses = v]
       /\ IF Len(accountAddresses) = 0
          THEN IF Missing(v)
               THEN /\ ExitWith(
                         << Shown("error", "Error: Account addresses are required for non-interactive mode", ""),
                            Shown("log", "Use --addresses option, --collection option, or --interactive mode", "") >>)
                    /\ accountAddresses' = accountAddresses
               ELSE /\ accountAddresses' = splitTrim(v)
                    /\ pc' = "validateType"
                    /\ UNCHANGED <<out, exitCode>>
          ELSE IF truthy(v)
               THEN /\ accountAddresses' = concat(accountAddresses, splitTrim(v))
                    /\ out' = Append(out,
                         Shown("log", "Added <n> additional addresses from command line.", ""))
                    /\ pc' = "validateType"
                    /\ exitCode' = exitCode
               ELSE /\ accountAddresses' = accountAddresses
                    /\ pc' = "validateType"
                    /\ UNCHANGED <<out, exitCode>>
  /\ UNCHANGED <<transactionTypes, webhookData, checkFrame>>

ValidateType ==
  /\ cmd = "create"
  /\ pc = "validateType"
  /\ IF ~includes(WEBHOOK_TYPES, options.type)
     THEN ExitWith(
            << Shown("error", "Error: Invalid webhook type:", ""),
               Shown("log", "Valid types are:", "") >>)
     ELSE pc' = "validateStatus" /\ UNCHANGED <<out, exitCode>>
  /\ UNCHANGED <<options, transactionTypes, accountAddresses, webhookData,
                 checkFrame>>

\* the draft of the command line mode
optionsDraft(o, types, addresses) ==
  [webhookURL |-> o.url,
   webhookType |-> o.type,
   transactionTypes |-> types,
   accountAddresses |-> addresses,
   authHeader |-> o.authHeader,
   txnStatus |-> IF truthy(o.status) THEN o.status ELSE undefined]

\* the draft built without looking at --status
ValidateStatus_Unchecked ==
  /\ cmd = "create"
  /\ pc = "validateStatus"
  /\ \E s \in StatusValues, a \in AuthHeaderValues :
       /\ options' = [options EXCEPT !.status = s, !.authHeader = a]
       /\ webhookData' =
            optionsDraft(options', transactionTypes, accountAddresses)
  /\ pc' = "submit"
  /\ UNCHANGED <<out, exitCode, transactionTypes, accountAddresses,
                 checkFrame>>

ValidateStatus ==
  /\ cmd = "create"
  /\ pc = "validateStatus"
  /\ \E s \in StatusValues, a \in AuthHeaderValues :
       /\ options' = [options EXCEPT !.status = s, !.authHeader = a]
       /\ IF truthy(s) /\ ~includes(TXN_STATUS_OPTIONS, s)
          THEN /\ ExitWith(
                    << Shown("error", "Error: Invalid transaction status:", ""),
                       Shown("log", "Valid options are:", "") >>)
               /\ webhookData' = webhookData
          ELSE /\ webhookData' =
                    optionsDraft(options', transactionTypes, accountAddresses)
               /\ pc' = "submit"
               /\ UNCHANGED <<out, exitCode>>
  /\ UNCHANGED <<transactionTypes, accountAddresses, checkFrame>>

\* ------------------------------------------------------------------------
\* webhooks create: the createWebhook call
\* ------------------------------------------------------------------------

Submit ==
  /\ cmd = "create"
  /\ pc = "submit"
  /\ out' = Append(out, Shown("spinner", "Creating webhook...", ""))
  /\ net' = Append(net, Request("POST /webhooks", webhookData))
  /\ pc' = "creating"
  /\ UNCHANGED <<cmd, options, exitCode, asked, thrown, result, webhookID,
                 transactionTypes, accountAddresses, webhookData, configVars,
                 lookupVars, promptVars>>

\* a response handler that sends the request again after a first failure
CreateResponse_Retry ==
  /\ cmd = "create"
  /\ pc = "creating"
  /\ \E outcome \in {"ok"} \cup AxiosFailures :
       /\ result' = outcome
       /\ IF outcome = "ok"
          THEN /\ out' = out \o
                    << Shown("succeed", "Webhook created successfully", ""),
                       Shown("log", "formatWebhook(webhook)", "") >>
               /\ exitCode' = 0
               /\ pc' = "done"
          ELSE IF result = ""
          THEN pc' = "submit" /\ UNCHANGED <<out, exitCode>>
          ELSE CreateCatch(RequestErrorMessage(outcome))
  /\ UNCHANGED <<cmd, options, asked, net, thrown, webhookID,
                 transactionTypes, accountAddresses, webhookData, configVars,
                 lookupVars, promptVars>>

CreateResponse ==
  /\ cmd = "create"
  /\ pc = "creating"
  /\ \E outcome \in {"ok"} \cup AxiosFailures :
       /\ result' = outcome
       /\ IF outcome = "ok"
          THEN /\ out' = out \o
                    << Shown("succeed", "Webhook created successfully", ""),
                       Shown("log", "formatWebhook(webhook)", "") >>
               /\ exitCode' = 0
               /\ pc' = "done"
          ELSE CreateCatch(RequestErrorMessage(outcome))
  /\ UNCHANGED <<cmd, options, asked, net, thrown, webhookID,
                 transactionTypes, accountAddresses, webhookData, configVars,
                 lookupVars, promptVars>>

\* ------------------------------------------------------------------------
\* webhooks create: promptForWebhookData
\* ------------------------------------------------------------------------

\* what is left alone by the prompts of the workflow
promptFrame == <<cmd, options, exitCode, net, thrown, result, webhookID,
                 transactionTypes, webhookData, configVars>>

\* basic questions that are always followed by the collection question
BasicQuestions_AlwaysAsk ==
  /\ cmd = "create"
  /\ pc = "basicQuestions"
  /\ \E url \in TextInputs, type \in WebhookTypeAnswers,
        auth \in {<<>>, <<"h">>}, status \in TxnStatusAnswers,
        types \in TransactionTypeAnswers :
       /\ NonBlank(url)
       /\ Len(types) > 0
       /\ basicAnswers' =
            [set |-> TRUE, webhookURL |-> url, webhookType |-> type,
             authHeader |-> auth, txnStatus |-> status,
             transactionTypes |-> types]
  /\ asked' = Append(asked, Asked("basicQuestions", <<>>))
  /\ pc' = "useCollection"
  /\ accountAddresses' = prefilledAddresses
  /\ collectionAddressesAdded' = FALSE
  /\ UNCHANGED <<out, prefilledAddresses, lookupVars, promptFrame>>

BasicQuestions ==
  /\ cmd = "create"
  /\ pc = "basicQuestions"
  /\ \E url \in TextInputs, type \in WebhookTypeAnswers,
        auth \in {<<>>, <<"h">>}, status \in TxnStatusAnswers,
        types \in TransactionTypeAnswers :
       /\ NonBlank(url)
       /\ Len(types) > 0
       /\ basicAnswers' =
            [set |-> TRUE, webhookURL |-> url, webhookType |-> type,
             authHeader |-> auth, txnStatus |-> status,
             transactionTypes |-> types]
  /\ asked' = Append(asked, Asked("basicQuestions", <<>>))
  /\ IF Len(prefilledAddresses) = 0
     THEN pc' = "useCollection"
     ELSE pc' = "addressQuestion"
  /\ accountAddresses' = prefilledAddresses
  /\ collectionAddressesAdded' = FALSE
  /\ UNCHANGED <<out, prefilledAddresses, lookupVars, promptFrame>>

UseCollection ==
  /\ cmd = "create"
  /\ pc = "useCollection"
  /\ \E useCollection \in Confirms :
       /\ asked' = Append(asked, Asked("useCollection", useCollection))
       /\ pc' = IF useCollection = jsTrue
                THEN "collectionAddress" ELSE "addressQuestion"
  /\ UNCHANGED <<out, accountAddresses, lookupVars, promptVars, promptFrame>>

CollectionAddress ==
  /\ cmd = "create"
  /\ pc = "collectionAddress"
  /\ \E input \in {<<>>, <<" ">>, <<"c">>} :
       /\ NonBlank(input)
       /\ asked' = Append(asked, Asked("collectionAddress", input))
       /\ CallLookup(input, "prompt")
  /\ UNCHANGED <<out, accountAddresses, promptVars, promptFrame>>

PromptLookupReturned ==
  /\ cmd = "create"
  /\ caller = "prompt"
  /\ pc = "lookupReturned"
  /\ IF Len(nftAddresses) = 0
     THEN /\ out' = out \o
               << Shown("succeed", "Found <n> NFTs in collection", ""),
                  Shown("log", "No NFTs found in the collection.", "") >>
          /\ asked' = asked
          /\ pc' = "addressQuestion"
     ELSE /\ out' = Append(out,
                      Shown("succeed", "Found <n> NFTs in collection", ""))
          /\ asked' = asked
          /\ pc' = "confirm"
  /\ UNCHANGED <<accountAddresses, lookupVars, promptVars, promptFrame>>

PromptConfirm ==
  /\ cmd = "create"
  /\ caller = "prompt"
  /\ pc = "confirm"
  /\ \E confirm \in Confirms :
       /\ asked' = Append(asked, Asked("confirm", confirm))
       /\ IF confirm = jsTrue
          THEN /\ accountAddresses' = concat(accountAddresses, nftAddresses)
               /\ collectionAddressesAdded' = TRUE
               /\ out' = Append(out,
                    Shown("log", "Added <n> NFT addresses from collection to the webhook.", ""))
          ELSE /\ accountAddresses' = accountAddresses
               /\ collectionAddressesAdded' = collectionAddressesAdded
               /\ out' = Append(out,
                    Shown("log", "NFT addresses from collection not added.", ""))
  /\ pc' = "addressQuestion"
  /\ UNCHANGED <<prefilledAddresses, basicAnswers, lookupVars, promptFrame>>

\* the lookup error left to the handler of the create action
PromptLookupThrew_Abort ==
  /\ cmd = "create"
  /\ caller = "prompt"
  /\ pc = "lookupThrew"
  /\ ExitWith(<< Shown("error", "Error creating webhook:", thrown) >>)
  /\ thrown' = ""
  /\ UNCHANGED <<cmd, options, asked, net, result, webhookID,
                 transactionTypes, accountAddresses, webhookData, configVars,
                 lookupVars, promptVars>>

PromptLookupThrew ==
  /\ cmd = "create"
  /\ caller = "prompt"
  /\ pc = "lookupThrew"
  /\ out' = Append(out,
       Shown("fail", "Failed to fetch NFTs from collection:", thrown))
  /\ thrown' = ""
  /\ pc' = "addressQuestion"
  /\ UNCHANGED <<cmd, options, exitCode, asked, net, result, webhookID,
                 transactionTypes, accountAddresses, webhookData, configVars,
                 lookupVars, promptVars>>

\* a requirement that looks at the prefilled addresses only
addressRequired_PrefilledOnly == ~(Len(prefilledAddresses) > 0)

\* !(prefilledAddresses.length > 0 || collectionAddressesAdded)
addressRequired ==
  ~(Len(prefilledAddresses) > 0 \/ collectionAddressesAdded)

\* a validate that accepts every entry
addressValid_Always(input) == TRUE

\* validate of the address question
addressValid(input) == IF ~addressRequired THEN TRUE ELSE NonBlank(input)

\* a filter without the test of the input
addressFilter_Unguarded(input) == splitTrim(input)

\* filter of the address question
addressFilter(input) == IF input /= <<>> THEN splitTrim(input) ELSE <<>>

AddressQuestion ==
  /\ cmd = "create"
  /\ pc = "addressQuestion"
  /\ \E input \in AddressInputs :
       /\ addressValid(input)
       /\ asked' = Append(asked, Asked("accountAddresses", input))
       /\ LET answer == addressFilter(input)
          IN  IF Len(answer) > 0
              THEN /\ accountAddresses' = concat(accountAddresses, answer)
                   /\ out' = Append(out,
                        Shown("log", "Added <n> additional addresses from input.", ""))
              ELSE /\ accountAddresses' = accountAddresses
                   /\ out' = out
  /\ pc' = "stillNoAddresses"
  /\ UNCHANGED <<lookupVars, promptVars, promptFrame>>

\* a draft that returns the parameter instead of the accumulated addresses
answersDraft_Prefilled(answers, addresses) ==
  [webhookURL |-> answers.webhookURL,
   webhookType |-> answers.webhookType,
   authHeader |-> IF answers.authHeader /= <<>>
                  THEN answers.authHeader ELSE undefined,
   txnStatus |-> answers.txnStatus,
   transactionTypes |-> answers.transactionTypes,
   accountAddresses |-> prefilledAddresses]

\* the draft promptForWebhookData returns
answersDraft(answers, addresses) ==
  [webhookURL |-> answers.webhookURL,
   webhookType |-> answers.webhookType,
   authHeader |-> IF answers.authHeader /= <<>>
                  THEN answers.authHeader ELSE undefined,
   txnStatus |-> answers.txnStatus,
   transactionTypes |-> answers.transactionTypes,
   accountAddresses |-> addresses]

\* the end of the workflow: the additionalAddresses question when there
\* still is no address, then the draft, which the create action takes as
\* webhookData
PromptReturn ==
  /\ cmd = "create"
  /\ pc = "stillNoAddresses"
  /\ IF Len(accountAddresses) = 0
     THEN /\ out' = Append(out,
               Shown("log", "Error: At least one account address is required.", ""))
          /\ \E input \in AddressInputs :
               /\ NonBlank(input)
               /\ asked' = Append(asked, Asked("additionalAddresses", input))
               /\ accountAddresses' = splitTrim(input)
     ELSE UNCHANGED <<out, asked, accountAddresses>>
  /\ webhookData' = answersDraft(basicAnswers, accountAddresses')
  /\ pc' = "submit"
  /\ UNCHANGED <<cmd, options, exitCode, net, thrown, result, webhookID,
                 transactionTypes, configVars, lookupVars, promptVars>>

\* ------------------------------------------------------------------------
\* webhooks delete
\* ------------------------------------------------------------------------

\* a confirmation whose answer is not looked at
DeleteConfirm_AnswerIgnored ==
  /\ cmd = "delete"
  /\ pc = "begin"
  /\ \E id \in WebhookIds, force \in FlagValues, confirm \in Confirms :
       /\ webhookID' = id
       /\ options' = [options EXCEPT !.force = force]
       /\ truthy(force) => confirm = jsTrue
       /\ asked' = IF truthy(force)
                   THEN asked ELSE Append(asked, Asked("confirm", confirm))
       /\ out' = Append(out, Shown("spinner", "Deleting webhook", ""))
       /\ net' = Append(net, Request("DELETE /webhooks/<id>", [id |-> id]))
       /\ pc' = "deleting"
  /\ UNCHANGED <<cmd, exitCode, thrown, result, transactionTypes,
                 accountAddresses, webhookData, configVars, lookupVars,
                 promptVars>>

DeleteConfirm ==
  /\ cmd = "delete"
  /\ pc = "begin"
  /\ \E id \in WebhookIds, force \in FlagValues, confirm \in Confirms :
       /\ webhookID' = id
       /\ options' = [options EXCEPT !.force = force]
       /\ truthy(force) => confirm = jsTrue
       /\ asked' = IF truthy(force)
                   THEN asked ELSE Append(asked, Asked("confirm", confirm))
       /\ IF ~truthy(force) /\ confirm = jsFalse
          THEN /\ out' = Append(out, Shown("log", "Deletion cancelled", ""))
               /\ net' = net
               /\ exitCode' = 0
               /\ pc' = "done"
          ELSE /\ out' = Append(out, Shown("spinner", "Deleting webhook", ""))
               /\ net' = Append(net,
                           Request("DELETE /webhooks/<id>", [id |-> id]))
               /\ exitCode' = exitCode
               /\ pc' = "deleting"
  /\ UNCHANGED <<cmd, thrown, result, transactionTypes, accountAddresses,
                 webhookData, configVars, lookupVars, promptVars>>

\* the messages of the delete command
DeletedMessage(id) == Shown("succeed", "Successfully deleted webhook", id)

\* a failure line printed the way the error handler prints
DeleteFailedMessage_AsError(id) ==
  Shown("error", "Error deleting webhook:", "No response received from API")

DeleteFailedMessage(id) == Shown("fail", "Failed to delete webhook", id)

DeleteErrorMessage(message) ==
  Shown("error", "Error deleting webhook:", message)

DeleteResponse ==
  /\ cmd = "delete"
  /\ pc = "deleting"
  /\ \E outcome \in {"success", "noSuccess"} \cup AxiosFailures :
       /\ result' = outcome
       /\ CASE outcome = "success" ->
                 /\ out' = Append(out, DeletedMessage(webhookID))
                 /\ thrown' = thrown
                 /\ exitCode' = 0
                 /\ pc' = "done"
            [] outcome = "noSuccess" ->
                 /\ out' = Append(out, DeleteFailedMessage(webhookID))
                 /\ thrown' = thrown
                 /\ exitCode' = 0
                 /\ pc' = "done"
            [] OTHER ->
                 /\ thrown' = RequestErrorMessage(outcome)
                 /\ out' = Append(out, DeleteErrorMessage(thrown'))
                 /\ exitCode' = 1
                 /\ pc' = "done"
  /\ UNCHANGED <<cmd, options, asked, net, webhookID, transactionTypes,
                 accountAddresses, webhookData, configVars, lookupVars,
                 promptVars>>

\* ------------------------------------------------------------------------
\* webhooks list and webhooks get
\* ------------------------------------------------------------------------

\* what is left alone by the list and get commands
readFrame == <<cmd, options, asked, transactionTypes, accountAddresses,
               webhookData, configVars, lookupVars, promptVars>>

ListCall ==
  /\ cmd = "list"
  /\ pc = "begin"
  /\ out' = Append(out, Shown("spinner", "Fetching webhooks...", ""))
  /\ net' = Append(net, Request("GET /webhooks", none))
  /\ pc' = "listing"
  /\ UNCHANGED <<exitCode, thrown, result, webhookID, readFrame>>

\* a handler that asks again after a failure
ListResponse_Retry ==
  /\ cmd = "list"
  /\ pc = "listing"
  /\ \E outcome \in AxiosFailures :
       /\ result' = outcome
       /\ net' = Append(net, Request("GET /webhooks", none))
       /\ thrown' = RequestErrorMessage(outcome)
       /\ out' = Append(out, Shown("error", "Error fetching webhooks:", thrown'))
       /\ exitCode' = 1
       /\ pc' = "done"
  /\ UNCHANGED <<webhookID, readFrame>>

ListResponse ==
  /\ cmd = "list"
  /\ pc = "listing"
  /\ \E outcome \in {"empty", "ok"} \cup AxiosFailures :
       /\ result' = outcome
       /\ CASE outcome = "empty" ->
                 /\ out' = out \o
                      << Shown("succeed", "Found <n> webhooks", ""),
                         Shown("log", "No webhooks found.", "") >>
                 /\ thrown' = thrown
                 /\ exitCode' = 0
            [] outcome = "ok" ->
                 /\ out' = out \o
                      << Shown("succeed", "Found <n> webhooks", ""),
                         Shown("log", "formatWebhook(webhook)", "") >>
                 /\ thrown' = thrown
                 /\ exitCode' = 0
            [] OTHER ->
                 /\ thrown' = RequestErrorMessage(outcome)
                 /\ out' = Append(out,
                      Shown("error", "Error fetching webhooks:", thrown'))
                 /\ exitCode' = 1
  /\ pc' = "done"
  /\ UNCHANGED <<net, webhookID, readFrame>>

GetCall ==
  /\ cmd = "get"
  /\ pc = "begin"
  /\ \E id \in WebhookIds :
       /\ webhookID' = id
       /\ net' = Append(net, Request("GET /webhooks/<id>", [id |-> id]))
  /\ out' = Append(out, Shown("spinner", "Fetching webhook", ""))
  /\ pc' = "getting"
  /\ UNCHANGED <<exitCode, thrown, result, readFrame>>

GetResponse ==
  /\ cmd = "get"
  /\ pc = "getting"
  /\ \E outcome \in {"ok"} \cup AxiosFailures :
       /\ result' = outcome
       /\ IF outcome = "ok"
          THEN /\ out' = out \o
                    << Shown("succeed", "Found webhook", webhookID),
                       Shown("log", "formatWebhook(webhook)", "") >>
               /\ thrown' = thrown
               /\ exitCode' = 0
          ELSE /\ thrown' = RequestErrorMessage(outcome)
               /\ out' = Append(out,
                    Shown("error", "Error fetching webhook:", thrown'))
               /\ exitCode' = 1
  /\ pc' = "done"
  /\ UNCHANGED <<net, webhookID, readFrame>>

\* ------------------------------------------------------------------------
\* The operations of HeliusApiClient on their own
\* ------------------------------------------------------------------------

\* the operations built on HeliusApiClient.request
RequestOperations ==
  {"getAllWebhooks", "getWebhook", "createWebhook", "updateWebhook",
   "deleteWebhook"}

\* the ids and the webhook data the operations are tried on
ClientIds == {<<"w">>, <<"x">>}

ClientWebhooks == {[webhookURL |-> <<"u">>], [webhookURL |-> <<"v">>]}

\* the request an operation hands to HeliusApiClient.request
OperationRequest(operation, id, webhook) ==
  CASE operation = "getAllWebhooks" -> Request("GET /webhooks", none)
    [] operation = "getWebhook" -> Request("GET /webhooks/<id>", [id |-> id])
    [] operation = "createWebhook" -> Request("POST /webhooks", webhook)
    [] operation = "updateWebhook" ->
         Request("PUT /webhooks/<id>", [id |-> id, webhook |-> webhook])
    [] OTHER -> Request("DELETE /webhooks/<id>", [id |-> id])

ClientCall ==
  /\ cmd \in RequestOperations
  /\ pc = "start"
  /\ \E id \in ClientIds, webhook \in ClientWebhooks :
       /\ cmd \in {"getAllWebhooks", "createWebhook"} => id = <<"w">>
       /\ cmd \in {"getAllWebhooks", "getWebhook", "deleteWebhook"}
            => webhook = [webhookURL |-> <<"u">>]
       /\ net' = Append(net, OperationRequest(cmd, id, webhook))
  /\ pc' = "requesting"
  /\ UNCHANGED <<cmd, options, exitCode, out, asked, thrown, result,
                 webhookID, transactionTypes, accountAddresses, webhookData,
                 configVars, lookupVars, promptVars>>

\* axios answers: response.data is returned, or the catch of request throws
ClientResponse ==
  /\ cmd \in RequestOperations
  /\ pc = "requesting"
  /\ \E outcome \in {"ok"} \cup AxiosFailures :
       /\ result' = outcome
       /\ IF outcome = "ok"
          THEN thrown' = thrown /\ pc' = "returned"
          ELSE thrown' = RequestErrorMessage(outcome) /\ pc' = "threw"
  /\ UNCHANGED <<cmd, options, exitCode, out, asked, net, webhookID,
                 transactionTypes, accountAddresses, webhookData, configVars,
                 lookupVars, promptVars>>

InitClient == InitCommon /\ cmd \in RequestOperations \cup {"lookup"}

NextClient == NextLookup \/ ClientCall \/ ClientResponse

SpecClient == InitClient /\ [][NextClient]_vars

\* ------------------------------------------------------------------------
\* The collection stages of create with pages of the real size
\* ------------------------------------------------------------------------

\* the workflow of a create run without --collection, started with an API
\* key configured, at its collection address prompt
AtCollectionAddress ==
  /\ cmd = "create"
  /\ pc = "collectionAddress"
  /\ currentConfig = [apiKey |-> <<"k">>, baseUrl |-> BaseUrl]
  /\ client = currentConfig
  /\ configFile = currentConfig
  /\ configArgs = none
  /\ options = [NoOptions EXCEPT !.collection = undefined,
                                 !.interactive = jsTrue]
  /\ exitCode = -1
  /\ out = << Shown("log", "Create a new webhook:", "") >>
  /\ asked = << Asked("basicQuestions", <<>>), Asked("useCollection", jsTrue) >>
  /\ net = <<>>
  /\ served = <<>>
  /\ caller = "none"
  /\ collectionAddress = <<>>
  /\ page = 0
  /\ hasMorePages = FALSE
  /\ nftAddresses = <<>>
  /\ thrown = ""
  /\ result = ""
  /\ webhookID = <<>>
  /\ transactionTypes = <<>>
  /\ accountAddresses = <<>>
  /\ prefilledAddresses = <<>>
  /\ collectionAddressesAdded = FALSE
  /\ \E status \in TxnStatusAnswers :
       basicAnswers =
         [set |-> TRUE, webhookURL |-> <<"u">>,
          webhookType |-> WEBHOOK_TYPES[1], authHeader |-> <<>>,
          txnStatus |-> status,
          transactionTypes |-> << TRANSACTION_TYPES[1] >>]
  /\ webhookData = none

\* a create run at its start, or its workflow at the collection address
\* prompt
InitCollection == (InitCommon /\ cmd = "create") \/ AtCollectionAddress

\* the steps up to the end of the collection stage of the create action and
\* of the workflow
NextCollection ==
  \/ EnsureConfig
  \/ CreateCollection
  \/ FetchPage(LookupSizes, AxiosFailures)
  \/ CreateLookupReturned
  \/ CreateConfirm
  \/ CreateLookupThrew
  \/ CollectionAddress
  \/ PromptLookupReturned
  \/ PromptConfirm
  \/ PromptLookupThrew

SpecCollection == InitCollection /\ [][NextCollection]_vars

\* ------------------------------------------------------------------------
\* The config commands
\* ------------------------------------------------------------------------

\* ["apiKey", "baseUrl"]
ConfigKeys == <<"apiKey", "baseUrl">>

\* the keys and values config set is tried on
KeyArguments == {"apiKey", "baseUrl", "apikey", "url", ""}

ValueArguments ==
  {<<>>, <<" ">>, <<"k">>, <<"n">>, <<"b">>, <<"n", "n">>, <<"k", " ">>,
   <<"u">>}

\* getConfig()
getConfig == currentConfig

\* a setConfig that starts from an empty configuration
setConfig_Fresh(config, key, value) ==
  [[apiKey |-> <<>>, baseUrl |-> BaseUrl] EXCEPT ![key] = value]

\* currentConfig[key] = value
setConfig(config, key, value) == [config EXCEPT ![key] = value]

ConfigSet ==
  /\ cmd = "config set"
  /\ pc = "start"
  /\ \E key \in KeyArguments, value \in ValueArguments,
        outcome \in SaveOutcomes :
       /\ configArgs' = [key |-> key, value |-> value]
       /\ IF ~includes(ConfigKeys, key)
          THEN /\ outcome = "written"
               /\ ExitWith(<< Shown("error",
                    "Invalid configuration key. Valid keys are: apiKey, baseUrl", "") >>)
               /\ UNCHANGED <<currentConfig, configFile>>
          ELSE /\ currentConfig' = setConfig(currentConfig, key, value)
               /\ saveConfig(currentConfig', outcome)
               /\ out' = Append(out, Shown("log", "Configuration updated:", key))
               /\ exitCode' = 0
               /\ pc' = "done"
  /\ UNCHANGED <<cmd, options, asked, net, thrown, result, webhookID,
                 transactionTypes, accountAddresses, webhookData, client,
                 lookupVars, promptVars>>

ConfigShow ==
  /\ cmd = "config show"
  /\ pc = "start"
  /\ out' = out \o
       << Shown("log", "API Key:",
                IF truthy(getConfig.apiKey) THEN "<apiKey>" ELSE "Not set"),
          Shown("log", "Base URL:", "<baseUrl>") >>
  /\ exitCode' = 0
  /\ pc' = "done"
  /\ UNCHANGED <<cmd, options, asked, net, thrown, result, webhookID,
                 transactionTypes, accountAddresses, webhookData, configVars,
                 lookupVars, promptVars>>

InitConfig == InitCommon /\ cmd \in {"config set", "config show"}

NextConfig == ConfigSet \/ ConfigShow

SpecConfig == InitConfig /\ [][NextConfig]_vars

\* ------------------------------------------------------------------------
\* The commands
\* ------------------------------------------------------------------------

Init == InitCommon /\ cmd \in {"create", "delete", "list", "get"}

Next ==
  \/ EnsureConfig
  \/ CreateCollection
  \/ FetchPage(CommandSizes, CommandFailures)
  \/ CreateLookupReturned
  \/ CreateConfirm
  \/ CreateLookupThrew
  \/ CreateMode
  \/ CheckUrl
  \/ CheckType
  \/ CheckTypes
  \/ ParseTypes
  \/ CheckAddresses
  \/ ValidateType
  \/ ValidateStatus
  \/ Submit
  \/ CreateResponse
  \/ BasicQuestions
  \/ UseCollection
  \/ CollectionAddress
  \/ PromptLookupReturned
  \/ PromptConfirm
  \/ PromptLookupThrew
  \/ AddressQuestion
  \/ PromptReturn
  \/ ListCall
  \/ ListResponse
  \/ GetCall
  \/ GetResponse
  \/ DeleteConfirm
  \/ DeleteResponse

Spec == Init /\ [][Next]_vars

\* ------------------------------------------------------------------------
\* Properties of the collection lookup
\* ------------------------------------------------------------------------

\* a response carrying exactly `Limit` items
FullPage(resp) == resp.kind = "items" /\ resp.n = Limit

\* the ids of the items served on pages 1..k, in page order
RECURSIVE ServedAddresses(_)
ServedAddresses(k) ==
  IF k = 0
  THEN <<>>
  ELSE ServedAddresses(k - 1)
         \o [i \in 1..served[k].n |-> ItemId(collectionAddress, k, i)]

\* C3: the lookup requests pages 1, 2, 3, ... in order with limit 1000, goes
\* on exactly while every page so far carried 1000 items, and after k full
\* pages and a page of m < 1000 items has issued k+1 requests and returns
\* the 1000*k + m addresses in page order.
C3_PaginationCount ==
  (cmd = "lookup" /\ pc \in {"lookup", "lookupReturned"}) =>
     /\ Len(net) = Len(served)
     /\ \A i \in 1..Len(net) :
          net[i].body.page = i /\ net[i].body.limit = 1000
            /\ net[i].body.groupValue = collectionAddress
     /\ \A i \in 1..(Len(served) - 1) : FullPage(served[i])
     /\ hasMorePages <=> (\A i \in 1..Len(served) : FullPage(served[i]))
     /\ pc = "lookupReturned" =>
          LET k == Len(served) - 1
              m == served[Len(served)].n
          IN  /\ m < 1000
              /\ Len(net) = k + 1
              /\ Len(nftAddresses) = 1000 * k + m
              /\ nftAddresses = ServedAddresses(Len(served))

\* C3 witness: two full pages and a page of 10 items were served, three
\* requests were made and 2010 addresses are returned
C3_Witness ==
  /\ cmd = "lookup" /\ pc = "lookupReturned"
  /\ Len(net) = 3
  /\ served[1].n = 1000 /\ served[2].n = 1000 /\ served[3].n = 10
  /\ Len(nftAddresses) = 2010

\* the first page came back without items: zero items, no items field or no
\* result
FirstPageEmpty ==
  /\ Len(served) >= 1
  /\ \/ served[1].kind \in {"noResult", "noItems"}
     \/ served[1].kind = "items" /\ served[1].n = 0

\* C4: when page 1 returns zero items, a missing items field or a missing
\* result, the lookup has issued exactly one request and returns the empty
\* list.
C4_EmptyFirstPage ==
  (cmd = "lookup" /\ FirstPageEmpty) =>
     /\ Len(net) = 1
     /\ ~hasMorePages
     /\ nftAddresses = <<>>
     /\ pc \in {"lookupReturned", "done"}
     /\ pc = "done" => (accountAddresses = <<>> /\ exitCode = 0)

\* C4 witness: the lookup returned after a first page without a result
C4_Witness ==
  /\ cmd = "lookup" /\ pc = "done"
  /\ Len(net) = 1
  /\ served[1].kind = "noResult"
  /\ accountAddresses = <<>>

\* ------------------------------------------------------------------------
\* Properties of webhooks create and webhooks delete
\* ------------------------------------------------------------------------

\* the createWebhook requests issued so far
CreateCalls == {i \in 1..Len(net) : net[i].api = "POST /webhooks"}

\* the run is a create in command line mode
CommandLineMode == cmd = "create" /\ options.interactive = undefined

\* the run is a create in interactive mode
InteractiveMode == cmd = "create" /\ options.interactive = jsTrue

\* an option that was not passed, or passed empty
Absent(v) == v = undefined \/ v = <<>>

\* C1: in command line mode, as soon as one of --url, --type, --types is
\* found absent the run has ended with exit status 1, and no createWebhook
\* request has been issued, whatever the collection lookup and the
\* confirmation gave before.
C1_MissingOptionNoCreate ==
  (CommandLineMode
     /\ (Absent(options.url) \/ Absent(options.type) \/ Absent(options.types)))
  => (pc = "done" /\ exitCode = 1 /\ CreateCalls = {})

\* C1 witness: --url and --type are given, --types is not, the collection
\* addresses were confirmed, and the run has ended with status 1
C1_Witness ==
  /\ CommandLineMode /\ pc = "done" /\ exitCode = 1
  /\ truthy(options.url) /\ truthy(options.type)
  /\ options.types = undefined
  /\ Len(accountAddresses) > 0
  /\ CreateCalls = {}

\* every comma-separated entry of v, trimmed and upper-cased, is a
\* transaction type
EveryTypeKnown(v) ==
  \A i \in 1..Len(split(v, ",")) :
    \E k \in 1..Len(TRANSACTION_TYPES) :
      TRANSACTION_TYPES[k] = toUpperCase(trim(split(v, ",")[i]))

\* the inputs other than --types are valid; an option the run ended without
\* reading has no influence on it and counts as valid
OtherInputsValid ==
  /\ truthy(options.url)
  /\ \E k \in 1..Len(WEBHOOK_TYPES) : WEBHOOK_TYPES[k] = options.type
  /\ options.addresses = unread \/ truthy(options.addresses)
  /\ \/ options.status \in {unread, undefined}
     \/ \E k \in 1..Len(TXN_STATUS_OPTIONS) :
          TXN_STATUS_OPTIONS[k] = options.status

\* C2: a command line run whose other inputs are valid issues createWebhook
\* if and only if every entry of --types, trimmed and upper-cased, is in
\* TRANSACTION_TYPES; with an entry outside it the run ends with status 1 and
\* without a createWebhook request.
C2_TypesAllOrNothing ==
  (CommandLineMode /\ pc = "done" /\ OtherInputsValid
     /\ options.types \notin {unread, undefined})
  => /\ Cardinality(CreateCalls) = 1 <=> EveryTypeKnown(options.types)
     /\ ~EveryTypeKnown(options.types) => (exitCode = 1 /\ CreateCalls = {})

\* C2 witness: --types "NFT_SALE, swap " passes (trimmed and upper-cased)
\* and the webhook is created
C2_Witness ==
  /\ CommandLineMode /\ pc = "done" /\ OtherInputsValid
  /\ options.types =
       <<"N","F","T","_","S","A","L","E",","," ","s","w","a","p"," ">>
  /\ options.status /= unread
  /\ Cardinality(CreateCalls) = 1

\* the answer given to the last prompt of that name, `unread` if none
AnswerTo(name) ==
  IF \E i \in 1..Len(asked) : asked[i].name = name
  THEN asked[CHOOSE i \in 1..Len(asked) :
               asked[i].name = name
                 /\ \A j \in (i + 1)..Len(asked) : asked[j].name /= name].answer
  ELSE unread

\* the workflow itself looked a collection up and the user confirmed it
WorkflowConfirmed ==
  \E i, j \in 1..Len(asked) :
    /\ i < j
    /\ asked[i].name = "basicQuestions"
    /\ asked[j] = Asked("confirm", jsTrue)

\* the entries of a comma-separated address list, trimmed
Entries(input) ==
  IF input = <<>>
  THEN <<>>
  ELSE [i \in 1..Len(split(input, ",")) |-> trim(split(input, ",")[i])]

\* C5: the accountAddresses of the draft of the interactive workflow is the
\* prefilled addresses, then the collection addresses if their inclusion was
\* confirmed, then the entries typed at the address prompt, in that order and
\* with duplicates kept.
C5_MergeOrder ==
  (InteractiveMode /\ pc \in {"submit", "creating", "done"}
     /\ AnswerTo("additionalAddresses") = unread)
  => webhookData.accountAddresses =
       prefilledAddresses
         \o (IF WorkflowConfirmed THEN nftAddresses ELSE <<>>)
         \o Entries(AnswerTo("accountAddresses"))

\* C5 witness: the workflow confirmed two collection addresses and "B,A,A"
\* was typed
C5_Witness ==
  /\ InteractiveMode /\ pc = "submit"
  /\ WorkflowConfirmed
  /\ AnswerTo("accountAddresses") = <<"B",",","A">>
  /\ webhookData.accountAddresses =
       << <<"c","/","1","/","1">>, <<"c","/","1","/","2">>, <<"B">>, <<"A">> >>

\* C6: in interactive mode no createWebhook request carries an empty
\* accountAddresses list, and a workflow that ended its prefilled, collection
\* and address stages without an address has asked for addresses once more.
C6_NeverEmptyAddresses ==
  InteractiveMode =>
    /\ \A i \in CreateCalls : Len(net[i].body.accountAddresses) > 0
    /\ pc = "submit" => Len(webhookData.accountAddresses) > 0
    /\ (/\ pc \in {"submit", "creating", "done"}
        /\ Len(prefilledAddresses) = 0
        /\ ~WorkflowConfirmed
        /\ Entries(AnswerTo("accountAddresses")) = <<>>)
       => AnswerTo("additionalAddresses") /= unread

\* C6 witness: nothing was prefilled, no collection was tracked, and the
\* createWebhook request was issued with the addresses the prompt required
C6_Witness ==
  /\ InteractiveMode /\ pc = "creating"
  /\ Len(prefilledAddresses) = 0
  /\ AnswerTo("useCollection") = jsFalse
  /\ Cardinality(CreateCalls) = 1
  /\ Len(net[Len(net)].body.accountAddresses) > 0

\* C7: the draft of the interactive workflow has no transaction status when
\* the "Skip" choice was taken, and the chosen value otherwise.
C7_SkipMeansAbsent ==
  (InteractiveMode /\ pc \in {"submit", "creating", "done"})
  => webhookData.txnStatus =
       IF basicAnswers.txnStatus = SkipChoice
       THEN undefined
       ELSE basicAnswers.txnStatus

\* C8: when deleteWebhook returns {success: false} the delete command ends
\* without throwing and without its error handler (no console.error line,
\* no process.exit(1)), and its last line is the failure line, which is not
\* the line shown for any transport or API error.
C8_DeleteNotSuccessful ==
  (cmd = "delete" /\ result = "noSuccess")
  => /\ pc = "done"
     /\ thrown = ""
     /\ exitCode /= 1
     /\ \A i \in 1..Len(out) : out[i].stream /= "error"
     /\ out[Len(out)].stream = "fail"
     /\ out[Len(out)].text = "Failed to delete webhook"
     /\ \A f \in AxiosFailures :
          /\ out[Len(out)].text /= DeleteErrorMessage(RequestErrorMessage(f)).text
          /\ out[Len(out)] /= DeleteErrorMessage(RequestErrorMessage(f))

\* C8 witness: a delete whose request came back with success false
C8_Witness ==
  /\ cmd = "delete" /\ pc = "done" /\ result = "noSuccess"
  /\ Len(net) = 1

\* C9: a create run issues at most one createWebhook request; once the draft
\* is assembled and submitted there is exactly one, and its body is the
\* draft with the addresses and transaction types the run collected.
C9_ExactlyOneCreate ==
  cmd = "create" =>
    /\ Cardinality(CreateCalls) <= 1
    /\ pc \in {"start", "begin", "lookup", "lookupReturned", "lookupThrew",
               "confirm", "mode", "checkUrl", "checkType", "checkTypes",
               "parseTypes", "addresses", "validateType", "validateStatus",
               "basicQuestions", "useCollection", "collectionAddress",
               "addressQuestion", "stillNoAddresses", "submit"}
         => CreateCalls = {}
    /\ (pc = "creating" \/ result /= "") =>
         /\ Cardinality(CreateCalls) = 1
         /\ net[Len(net)].api = "POST /webhooks"
         /\ net[Len(net)].body = webhookData
         /\ net[Len(net)].body.accountAddresses = accountAddresses
         /\ net[Len(net)].body.transactionTypes =
              IF InteractiveMode
              THEN basicAnswers.transactionTypes ELSE transactionTypes
         /\ net[Len(net)].body.webhookURL =
              IF InteractiveMode THEN basicAnswers.webhookURL ELSE options.url
    /\ (pc = "done" /\ exitCode = 0) => Cardinality(CreateCalls) = 1

\* C9 witness: a command line run that was answered with an API error has
\* issued its one request
C9_Witness ==
  /\ CommandLineMode /\ pc = "done" /\ result = "response"
  /\ Cardinality(CreateCalls) = 1

\* C10: a command line run that ends in a validation failure has issued no
\* network request at all.
C10_ValidationBeforeNetwork ==
  (CommandLineMode /\ pc = "done" /\ exitCode = 1 /\ result = "")
  => net = <<>>

\* a failure of the command itself was shown: a line of console.error (a
\* validation failure or a caught error) or the line of a delete that was not
\* successful
FailureShown ==
  \E i \in 1..Len(out) :
    \/ out[i].stream = "error"
    \/ out[i] = DeleteFailedMessage(webhookID)

\* C11: a run that has ended after showing a failure (validation failure,
\* transport or API error, delete reported as failed) has a non-zero exit
\* status, and a run that has ended without one has exit status 0.
C11_FailureExitsNonZero ==
  pc = "done" => (FailureShown <=> exitCode /= 0)

\* an address produced by the collection lookup (ItemId)
IsCollectionAddress(a) == \E k \in 1..Len(a) : a[k] = "/"

\* how many of the addresses come from a collection lookup
CollectionCount(addresses) ==
  Cardinality({i \in 1..Len(addresses) : IsCollectionAddress(addresses[i])})

\* C12: in both modes of create, a collection lookup that returned addresses
\* is followed by the confirmation prompt with the address list untouched;
\* collection addresses enter the address list only in the step that records
\* the answer yes to that prompt, and the answer no leaves the list as it was.
C12_ConfirmBeforeInclude ==
  [][ cmd = "create" =>
        /\ (pc = "lookupReturned" /\ Len(nftAddresses) > 0)
             => (pc' = "confirm" /\ accountAddresses' = accountAddresses)
        /\ CollectionCount(accountAddresses') > CollectionCount(accountAddresses)
             => /\ pc = "confirm"
                /\ asked' = Append(asked, Asked("confirm", jsTrue))
        /\ (pc = "confirm" /\ asked' = Append(asked, Asked("confirm", jsFalse)))
             => accountAddresses' = accountAddresses
        /\ (pc = "confirm" /\ pc' /= "confirm")
             => Len(asked') = Len(asked) + 1 /\ asked'[Len(asked')].name = "confirm"
    ]_vars

\* C12 witness: a command line run whose collection was resolved and
\* confirmed holds exactly the collection addresses
C12_Witness ==
  /\ CommandLineMode
  /\ pc = "checkUrl"
  /\ Len(nftAddresses) > 0
  /\ asked[Len(asked)] = Asked("confirm", jsTrue)
  /\ accountAddresses = nftAddresses
  /\ CollectionCount(accountAddresses) = Len(nftAddresses)

\* C13: a collection lookup that threw inside a create run is caught where it
\* was called: the step that handles it leaves the address list and the exit
\* status as they were and moves on (the workflow's lookup straight to the
\* address question), and an interactive run ends with a failure only when
\* the createWebhook call itself failed.
C13_LookupFailureNotFatal ==
  /\ [][ (cmd = "create" /\ pc = "lookupThrew") =>
           /\ accountAddresses' = accountAddresses
           /\ exitCode' = exitCode
           /\ exitCode = -1
           /\ CreateCalls = {}
           /\ pc' = IF caller = "prompt" THEN "addressQuestion" ELSE "mode"
       ]_vars
  /\ [](InteractiveMode /\ pc = "done" /\ exitCode /= 0
          => Cardinality(CreateCalls) = 1 /\ result \in AxiosFailures)

\* C13 witness: an interactive run whose workflow lookup failed has issued
\* the createWebhook request with the addresses typed at the address question
C13_Witness ==
  /\ InteractiveMode
  /\ caller = "prompt"
  /\ served /= <<>>
  /\ served[Len(served)].kind = "error"
  /\ pc = "creating"
  /\ CreateCalls /= {}
  /\ accountAddresses = Entries(AnswerTo("accountAddresses"))

\* the number of commas of a string
Commas(s) == Cardinality({k \in 1..Len(s) : s[k] = ","})

\* C14: the createWebhook request of a command line run whose collection
\* addresses were confirmed and that was given --addresses carries the
\* collection addresses followed by the --addresses entries, each trimmed,
\* one per comma-separated piece, in order and with duplicates kept.
C14_CollectionThenAddresses ==
  (/\ CommandLineMode
   /\ CreateCalls /= {}
   /\ AnswerTo("confirm") = jsTrue
   /\ truthy(options.addresses))
  => LET sent == net[Len(net)].body.accountAddresses
         n == Len(nftAddresses)
     IN  /\ sent = nftAddresses \o Entries(options.addresses)
         /\ Len(sent) = n + Commas(options.addresses) + 1
         /\ \A i \in 1..n : sent[i] = nftAddresses[i]
         /\ \A i \in (n + 1)..Len(sent) :
              sent[i] = <<>> \/
                (Head(sent[i]) \notin WhiteSpace
                   /\ sent[i][Len(sent[i])] \notin WhiteSpace)

\* C14 witness: confirmed collection addresses followed by two equal entries
\* of --addresses, one of them given with blanks around it
C14_Witness ==
  /\ CommandLineMode
  /\ pc = "creating"
  /\ AnswerTo("confirm") = jsTrue
  /\ options.addresses = <<"A", ",", " ", "A", " ">>
  /\ net[Len(net)].body.accountAddresses = nftAddresses \o << <<"A">>, <<"A">> >>
  /\ Len(nftAddresses) = 2

\* the message of the address requirement of the command line mode
AddressesRequiredMessage ==
  Shown("error", "Error: Account addresses are required for non-interactive mode", "")

\* the address check of the command line mode has run
AddressesChecked == CommandLineMode /\ options.addresses /= unread

\* the inclusion of the collection addresses was confirmed
CollectionConfirmed == AnswerTo("confirm") = jsTrue

C15_CollectionOnly ==
  /\ AddressesChecked
  /\ options.addresses = undefined
  /\ CollectionConfirmed
  /\ pc = "creating"

\* the members of a list
Members(list) == {list[i] : i \in 1..Len(list)}

\* the client-side required fields of a draft are present
RequiredFieldsPresent(draft) ==
  /\ draft.webhookURL /= undefined /\ Len(draft.webhookURL) > 0
  /\ draft.webhookType \in Members(WEBHOOK_TYPES)
  /\ Len(draft.transactionTypes) > 0
  /\ Members(draft.transactionTypes) \subseteq Members(TRANSACTION_TYPES)
  /\ Len(draft.accountAddresses) > 0

\* C16: every createWebhook request, of the command line mode and of the
\* interactive workflow, carries a non-empty URL, a webhook type of
\* WEBHOOK_TYPES, a non-empty list of transaction types that are all in
\* TRANSACTION_TYPES, and a non-empty list of account addresses.
C16_RequiredFieldsPresent ==
  /\ Cardinality(Members(WEBHOOK_TYPES)) = 6
  /\ \A i \in CreateCalls : RequiredFieldsPresent(net[i].body)

\* C16 witness: an interactive run has sent a discord webhook with two
\* transaction types
C16_Witness ==
  /\ InteractiveMode
  /\ pc = "creating"
  /\ CreateCalls /= {}
  /\ net[Len(net)].body.webhookType = WEBHOOK_TYPES[5]
  /\ Len(net[Len(net)].body.transactionTypes) = 2
  /\ RequiredFieldsPresent(net[Len(net)].body)

\* a command line run has sent a draft with all required fields
C16_CommandLineSent ==
  /\ CommandLineMode
  /\ pc = "creating"
  /\ RequiredFieldsPresent(net[Len(net)].body)

\* --type is one of WEBHOOK_TYPES
TypeAccepted == options.type \in Members(WEBHOOK_TYPES)

\* --status is absent or one of all, success, failed
StatusAccepted ==
  Absent(options.status) \/ options.status \in Members(TXN_STATUS_OPTIONS)

\* C17: a command line run sends a createWebhook request only with --type in
\* WEBHOOK_TYPES and --status absent or in TXN_STATUS_OPTIONS; a run that has
\* read a --type outside WEBHOOK_TYPES never gets past the type validation,
\* and a run that has ended with such a --type or with a --status outside
\* TXN_STATUS_OPTIONS has exit status 1 and has sent no createWebhook request.
C17_TypeAndStatusValidated ==
  CommandLineMode =>
    /\ CreateCalls /= {} => (TypeAccepted /\ StatusAccepted)
    /\ (options.type /= unread /\ ~TypeAccepted)
         => /\ pc \in {"checkTypes", "parseTypes", "addresses",
                       "validateType", "done"}
            /\ CreateCalls = {}
            /\ pc = "done" => exitCode = 1
    /\ (options.status /= unread /\ ~StatusAccepted)
         => pc = "done" /\ exitCode = 1 /\ CreateCalls = {}

\* C17 witness: all other options valid, --status ALL: the run has ended
\* with the status message and exit status 1, without a request
C17_Witness ==
  /\ CommandLineMode
  /\ TypeAccepted
  /\ options.status = <<"A","L","L">>
  /\ pc = "done" /\ exitCode = 1
  /\ out[Len(out) - 1].text = "Error: Invalid transaction status:"
  /\ CreateCalls = {}

\* a run given --type Raw has ended at the type validation
C17_TypeRejected ==
  /\ CommandLineMode
  /\ options.type = <<"R","a","w">>
  /\ pc = "done" /\ exitCode = 1
  /\ out[Len(out) - 1].text = "Error: Invalid webhook type:"

\* a run given an empty --status has sent its request without a status
C17_EmptyStatusSent ==
  /\ CommandLineMode
  /\ options.status = <<>>
  /\ pc = "creating"
  /\ net[Len(net)].body.txnStatus = undefined

\* the three classes of failure messages of the API client
ResponseClass == {"API Error: <status> - <body>"}

NoResponseClass == {"No response received from API"}

SetupClass ==
  {"Error setting up request: <message>",
   "Error fetching NFT addresses: <message>"}

\* the class a failure of axios belongs to
ClassOfFailure(failure) ==
  CASE failure = "response" -> ResponseClass
    [] failure = "request" -> NoResponseClass
    [] OTHER -> SetupClass

\* the failure of the operation that has just ended, "none" without one
OperationFailure ==
  IF cmd = "lookup"
  THEN IF served /= <<>> /\ served[Len(served)].kind = "error"
       THEN served[Len(served)].failure ELSE "none"
  ELSE IF result \in AxiosFailures THEN result ELSE "none"

\* the operation has ended
OperationEnded ==
  pc \in {"returned", "threw", "lookupReturned", "lookupThrew", "done"}

\* C18: an operation of the API client (list, get, create, update, delete,
\* collection lookup) whose request failed ends by throwing an Error whose
\* message is of the class of the failure (a response with an error status:
\* status and body; no response; request not set up), the three classes
\* share no message, and an operation whose request did not fail throws
\* nothing.
C18_FailureClasses ==
  /\ ResponseClass \cap NoResponseClass = {}
  /\ ResponseClass \cap SetupClass = {}
  /\ NoResponseClass \cap SetupClass = {}
  /\ OperationEnded =>
       IF OperationFailure = "none"
       THEN thrown = "" /\ pc \notin {"threw", "lookupThrew"}
       ELSE /\ thrown \in ClassOfFailure(OperationFailure)
            /\ (pc \in {"threw", "lookupThrew"} \/ exitCode = 1)
  /\ (pc \in {"threw", "lookupThrew"}) =>
       thrown \in ResponseClass \cup NoResponseClass \cup SetupClass

\* C18 witness: an update that got no response has thrown the message of the
\* second class
C18_Witness ==
  /\ cmd = "updateWebhook"
  /\ pc = "threw"
  /\ result = "request"
  /\ thrown = "No response received from API"
  /\ net[1].api = "PUT /webhooks/<id>"

\* a lookup whose request could not be set up has thrown the third class
C18_LookupSetup ==
  /\ cmd = "lookup"
  /\ pc = "lookupThrew"
  /\ OperationFailure = "setup"
  /\ thrown = "Error fetching NFT addresses: <message>"

\* the deleteWebhook requests issued so far
DeleteCalls == {i \in 1..Len(net) : net[i].api = "DELETE /webhooks/<id>"}

\* C19: once `webhooks delete <id>` is past its confirmation stage, a
\* deleteWebhook request has been issued exactly when --force was given or
\* the confirmation was answered yes; with --force no confirmation was
\* asked, without it one was; a declined confirmation has ended the run
\* with exit status 0, no request and no failure line.
C19_DeleteNeedsConsent ==
  (cmd = "delete" /\ pc \in {"deleting", "done"}) =>
    /\ DeleteCalls /= {}
         <=> (truthy(options.force) \/ AnswerTo("confirm") = jsTrue)
    /\ Cardinality(DeleteCalls) = Len(net)
    /\ Len(net) <= 1
    /\ truthy(options.force) => AnswerTo("confirm") = unread
    /\ ~truthy(options.force) => AnswerTo("confirm") \in Confirms
    /\ (~truthy(options.force) /\ AnswerTo("confirm") = jsFalse)
         => /\ net = <<>>
            /\ pc = "done"
            /\ exitCode = 0
            /\ ~FailureShown
            /\ out[Len(out)] = Shown("log", "Deletion cancelled", "")

\* C19 witness: a delete without --force whose confirmation was declined
\* has ended normally without a request
C19_Witness ==
  /\ cmd = "delete"
  /\ options.force = undefined
  /\ AnswerTo("confirm") = jsFalse
  /\ pc = "done" /\ exitCode = 0
  /\ net = <<>>

\* a delete with --force has issued its request without a prompt
C19_Forced ==
  /\ cmd = "delete"
  /\ options.force = jsTrue
  /\ pc = "deleting"
  /\ AnswerTo("confirm") = unread
  /\ Cardinality(DeleteCalls) = 1

\* C20: the step that takes the answer of the address question appends to
\* the address list one entry per comma-separated piece of the typed text,
\* each the piece with the blanks around it removed, and appends nothing
\* when the typed text is empty.
C20_AddressInputSplit ==
  [][ (cmd = "create" /\ pc = "addressQuestion") =>
        LET q == asked'[Len(asked')]
            kept == Len(accountAddresses)
            added == SubSeq(accountAddresses', kept + 1, Len(accountAddresses'))
        IN  /\ Len(asked') = Len(asked) + 1
            /\ q.name = "accountAddresses"
            /\ SubSeq(accountAddresses', 1, kept) = accountAddresses
            /\ q.answer = <<>> => added = <<>>
            /\ q.answer /= <<>> =>
                 /\ Len(added) = Commas(q.answer) + 1
                 /\ \A i \in 1..Len(added) :
                      /\ added[i] = trim(split(q.answer, ",")[i])
                      /\ added[i] = <<>> \/
                           (Head(added[i]) \notin WhiteSpace
                              /\ added[i][Len(added[i])] \notin WhiteSpace)
    ]_vars

\* C20 witness: with addresses prefilled, an empty entry at the address
\* question has left the list as it was
C20_Witness ==
  /\ InteractiveMode
  /\ pc = "stillNoAddresses"
  /\ AnswerTo("accountAddresses") = <<>>
  /\ Len(prefilledAddresses) > 0
  /\ accountAddresses = prefilledAddresses

\* the entry " A ,B" has added A and B
C20_TrimmedEntries ==
  /\ InteractiveMode
  /\ pc = "stillNoAddresses"
  /\ AnswerTo("accountAddresses") = <<" ", "A", " ", ",", "B">>
  /\ accountAddresses = << <<"A">>, <<"B">> >>

\* the key of the configuration that is not k
OtherKey(k) == IF k = "apiKey" THEN "baseUrl" ELSE "apiKey"

\* C21: the step of `config set <key> <value>`: with a key other than apiKey
\* and baseUrl it ends with exit status 1 and leaves the configuration, in
\* memory and on disk, as it was; with one of the two keys getConfig then
\* gives the new value for that key and the old value for the other key, and
\* the run ends with exit status 0.
C21_ConfigSet ==
  [][ (cmd = "config set" /\ pc = "start") =>
        LET key == configArgs'.key
            value == configArgs'.value
        IN  IF key \notin {"apiKey", "baseUrl"}
            THEN /\ exitCode' = 1
                 /\ currentConfig' = currentConfig
                 /\ configFile' = configFile
            ELSE /\ exitCode' = 0
                 /\ getConfig'[key] = value
                 /\ getConfig'[OtherKey(key)] = currentConfig[OtherKey(key)]
                 /\ DOMAIN getConfig' = {"apiKey", "baseUrl"}
    ]_vars

\* C21 witness: with an API key stored, baseUrl was set to a new value
C21_Witness ==
  /\ cmd = "config set"
  /\ pc = "done" /\ exitCode = 0
  /\ configArgs = [key |-> "baseUrl", value |-> <<"n">>]
  /\ getConfig = [apiKey |-> <<"k">>, baseUrl |-> <<"n">>]
  /\ configFile = getConfig

\* a key in the wrong case was refused
C21_Refused ==
  /\ cmd = "config set"
  /\ pc = "done" /\ exitCode = 1
  /\ configArgs.key = "apikey"
  /\ getConfig = client

\* the prompt of that name was asked
WasAsked(name) == \E i \in 1..Len(asked) : asked[i].name = name

\* the interactive workflow is past its collection question
PastCollectionQuestion ==
  InteractiveMode /\ pc \notin {"basicQuestions", "useCollection"}

\* the workflow has called the collection lookup
WorkflowLookup == caller = "prompt"

\* C22: in the interactive workflow the collection question is asked exactly
\* when nothing was prefilled; after the answer yes a non-blank collection
\* address was entered and the lookup was called with it; after the answer
\* no, and when addresses were prefilled, the workflow calls no lookup; and
\* addresses of the workflow's lookup are in the list only after the
\* confirmation asked inside the workflow was answered yes.
C22_CollectionQuestion ==
  /\ PastCollectionQuestion =>
       /\ WasAsked("useCollection") <=> Len(prefilledAddresses) = 0
       /\ Len(prefilledAddresses) > 0 =>
            (~WorkflowLookup /\ ~WasAsked("collectionAddress")
               /\ ~collectionAddressesAdded)
       /\ AnswerTo("useCollection") = jsFalse =>
            (~WorkflowLookup /\ ~WasAsked("collectionAddress")
               /\ ~collectionAddressesAdded)
       /\ (AnswerTo("useCollection") = jsTrue /\ pc /= "collectionAddress") =>
            /\ NonBlank(AnswerTo("collectionAddress"))
            /\ WorkflowLookup
            /\ collectionAddress = AnswerTo("collectionAddress")
            /\ pc /= "lookup" =>
                 (served /= <<>>
                    /\ net[Len(net) - (IF CreateCalls = {} THEN 0 ELSE 1)]
                         .body.groupValue = collectionAddress)
  /\ InteractiveMode =>
       /\ collectionAddressesAdded => WorkflowConfirmed
       /\ (WorkflowLookup /\ ~WorkflowConfirmed) =>
            CollectionCount(accountAddresses) = 0
       /\ (WorkflowLookup /\ pc = "confirm") => accountAddresses = <<>>

\* C22 witness: nothing prefilled, the collection question answered yes, the
\* address c entered, and its two addresses added after the confirmation
C22_Witness ==
  /\ InteractiveMode
  /\ pc = "addressQuestion"
  /\ prefilledAddresses = <<>>
  /\ AnswerTo("useCollection") = jsTrue
  /\ AnswerTo("collectionAddress") = <<"c">>
  /\ WorkflowConfirmed
  /\ collectionAddressesAdded
  /\ Len(accountAddresses) = 2

\* with prefilled addresses the workflow went straight to the address
\* question
C22_Prefilled ==
  /\ InteractiveMode
  /\ pc = "addressQuestion"
  /\ Len(prefilledAddresses) > 0
  /\ ~WasAsked("useCollection")
  /\ caller = "create"

\* C23: when the address question of the workflow is asked, its validation
\* rejects an empty or blank entry exactly when the accumulated list is
\* empty, that is when nothing was prefilled and no collection addresses
\* were confirmed; it accepts a non-blank entry always, and the entry that
\* was accepted was non-blank whenever nothing had been accumulated.
C23_AddressRequired ==
  /\ (cmd = "create" /\ pc = "addressQuestion") =>
       /\ addressRequired <=> Len(accountAddresses) = 0
       /\ addressRequired <=>
            (Len(prefilledAddresses) = 0 /\ ~WorkflowConfirmed)
       /\ addressValid(<<>>) <=> ~addressRequired
       /\ addressValid(<<" ">>) <=> ~addressRequired
       /\ addressValid(<<"A">>)
  /\ (InteractiveMode /\ WasAsked("accountAddresses")
        /\ Len(prefilledAddresses) = 0 /\ ~WorkflowConfirmed)
       => trim(AnswerTo("accountAddresses")) /= <<>>

\* C23 witness: after confirmed collection addresses an empty entry was
\* accepted
C23_Witness ==
  /\ InteractiveMode
  /\ pc = "stillNoAddresses"
  /\ prefilledAddresses = <<>>
  /\ WorkflowConfirmed
  /\ AnswerTo("accountAddresses") = <<>>
  /\ accountAddresses = nftAddresses

\* the address question is asked with nothing accumulated
C23_Required ==
  /\ InteractiveMode
  /\ pc = "addressQuestion"
  /\ addressRequired
  /\ AnswerTo("useCollection") = jsTrue

\* the requests sent through HeliusApiClient.request
RestCalls == {i \in 1..Len(net) : net[i].api /= "getAssetsByGroup"}

\* the requests of pages of collections, oldest first
PageRequests ==
  SelectSeq(net, LAMBDA request : request.api = "getAssetsByGroup")

\* the API of the one REST request of a command
CommandApi ==
  CASE cmd = "list" -> "GET /webhooks"
    [] cmd = "get" -> "GET /webhooks/<id>"
    [] cmd = "create" -> "POST /webhooks"
    [] OTHER -> "DELETE /webhooks/<id>"

\* C24: a list, get, create or delete command sends at most one REST
\* request; when that request has failed with a transport or API error the
\* run has ended with exit status 1 and the failed request is the last
\* request on the network; the collection lookup has sent one request per
\* page, pages 1, 2, .. in order, and a failed page is its last one.
C24_NoRetry ==
  /\ Cardinality(RestCalls) <= 1
  /\ \A i \in RestCalls : i = Len(net) /\ net[i].api = CommandApi
  /\ result \in AxiosFailures =>
       /\ pc = "done"
       /\ exitCode = 1
       /\ Cardinality(RestCalls) = 1
       /\ FailureShown
  /\ Len(served) <= Len(PageRequests)
  /\ \A k \in 1..Len(served) :
       /\ PageRequests[Len(PageRequests) - Len(served) + k].body.page = k
       /\ served[k].kind = "error" => k = Len(served)
  /\ pc = "lookup" => Len(PageRequests) = Len(net)

\* C24 witness: a list command that got no response has ended with exit
\* status 1 after its one request
C24_Witness ==
  /\ cmd = "list"
  /\ pc = "done" /\ exitCode = 1
  /\ result = "request"
  /\ Len(net) = 1
  /\ net[1].api = "GET /webhooks"

\* a get command answered with an error status
C24_GetFailed ==
  /\ cmd = "get"
  /\ pc = "done" /\ exitCode = 1
  /\ result = "response"
  /\ Len(net) = 1

\* a create command whose lookup took two pages and whose request failed
C24_CreateFailed ==
  /\ cmd = "create"
  /\ pc = "done" /\ exitCode = 1
  /\ result \in AxiosFailures
  /\ Len(PageRequests) = 2
  /\ Len(net) = 3

\* every page served so far was full
AllPagesFull == \A i \in 1..Len(served) : FullPage(served[i])

\* C25: while the lookup runs or has just ended, it has ended exactly when
\* the last page served was an error (thrown) or was not full (returned):
\* after any number of full pages and nothing else the loop is still running,
\* with one request per page served and the next page number at hand, so an
\* endpoint that serves only full pages is asked without end.
C25_NoPageCap ==
  (cmd = "lookup" /\ pc \in {"lookup", "lookupReturned", "lookupThrew"}) =>
    /\ \A i \in 1..(Len(served) - 1) : FullPage(served[i])
    /\ AllPagesFull =>
         /\ pc = "lookup"
         /\ hasMorePages
         /\ page = Len(served) + 1
         /\ Len(net) = Len(served)
         /\ Len(nftAddresses) = Limit * Len(served)
    /\ ~AllPagesFull =>
         LET last == served[Len(served)]
         IN  /\ pc = IF last.kind = "error"
                     THEN "lookupThrew" ELSE "lookupReturned"
             /\ last.kind /= "error" => ~hasMorePages
             /\ Len(net) = Len(served)

\* C25 witness: after two full pages the loop is still running, about to
\* request page 3
C25_Witness ==
  /\ cmd = "lookup"
  /\ pc = "lookup"
  /\ Len(served) = MaxPages - 1
  /\ MaxPages - 1 >= 2
  /\ AllPagesFull
  /\ page = MaxPages
  /\ hasMorePages

\* C26: every request on the network carries the API key of the current
\* configuration, also after ensureConfig has asked for a key and stored it.
C26_RequestsCarryCurrentKey ==
  \A i \in 1..Len(net) : net[i].key = currentConfig.apiKey

\* C27: no address of the accountAddresses list of a createWebhook request
\* is the empty string.
C27_NoEmptyAddress ==
  \A i \in CreateCalls :
    \A j \in 1..Len(net[i].body.accountAddresses) :
      net[i].body.accountAddresses[j] /= <<>>

\* the lookup that was called last has failed
LookupFailed == served /= <<>> /\ served[Len(served)].kind = "error"

\* C28: when the request of a page of the collection lookup has failed, the
\* lookup has thrown, whatever it had collected from the pages before, and
\* its caller (the create action, the workflow) holds none of those
\* addresses: the address list is empty as before the call, nothing was
\* asked to be confirmed and nothing was marked as added.
C28_AllOrNothing ==
  (cmd = "create" /\ LookupFailed) =>
    /\ pc \in {"lookupThrew", "mode", "addressQuestion"}
    /\ Len(nftAddresses) = Limit * (Len(served) - 1)
    /\ accountAddresses = <<>>
    /\ CollectionCount(accountAddresses) = 0
    /\ ~collectionAddressesAdded
    /\ ~WasAsked("confirm")
    /\ pc /= "lookupThrew" =>
         /\ out[Len(out) - (IF caller = "create" THEN 1 ELSE 0)].stream = "fail"
         /\ thrown = ""

\* C28 witness: the workflow's lookup failed on page 2 after a full page 1,
\* and the workflow is at the address question with an empty list
C28_Witness ==
  /\ cmd = "create"
  /\ caller = "prompt"
  /\ pc = "addressQuestion"
  /\ Len(served) = 2
  /\ served[1].n = Limit
  /\ LookupFailed
  /\ Len(nftAddresses) = Limit
  /\ accountAddresses = <<>>

\* the same for the lookup of --collection
C28_Upstream ==
  /\ cmd = "create"
  /\ caller = "create"
  /\ pc = "mode"
  /\ Len(served) = 2
  /\ LookupFailed
  /\ Len(nftAddresses) = Limit
  /\ accountAddresses = <<>>

\* the message printed before the second address prompt
AddressStillRequired ==
  Shown("log", "Error: At least one account address is required.", "")

\* C29: when the workflow gets to the test after its address question the
\* accumulated address list is not empty, so the second address prompt is
\* never asked and its message is never printed.
C29_RePromptUnreached ==
  /\ (cmd = "create" /\ pc = "stillNoAddresses") =>
       /\ Len(accountAddresses) > 0
       /\ (Len(prefilledAddresses) > 0 \/ WorkflowConfirmed
             \/ trim(AnswerTo("accountAddresses")) /= <<>>)
  /\ ~WasAsked("additionalAddresses")
  /\ \A i \in 1..Len(out) : out[i] /= AddressStillRequired

\* C29 witness: nothing was prefilled or confirmed, the address question
\* took a non-blank entry, and the test finds one address
C29_Witness ==
  /\ InteractiveMode
  /\ pc = "stillNoAddresses"
  /\ prefilledAddresses = <<>>
  /\ ~collectionAddressesAdded
  /\ AnswerTo("accountAddresses") = <<"B">>
  /\ accountAddresses = << <<"B">> >>

\* the options that only the command line mode looks at
ModeOptions == {"url", "type", "types", "addresses", "status", "authHeader"}

\* the inclusion of the addresses of --collection was confirmed, before the
\* workflow began
UpstreamConfirmed ==
  \E i \in 1..Len(asked) :
    /\ asked[i] = Asked("confirm", jsTrue)
    /\ \A j \in 1..(i - 1) : asked[j].name /= "basicQuestions"

\* C30: a create run with --interactive never reads --url, --type, --types,
\* --addresses, --status or --auth-header, prints none of the validation
\* messages of the command line mode, and the body of its createWebhook
\* request is made of the answers to the basic questions and of the
\* addresses confirmed from --collection, confirmed in the workflow and
\* typed at the address question.
C30_InteractiveIgnoresOptions ==
  InteractiveMode =>
    /\ \A name \in ModeOptions : options[name] = unread
    /\ (pc = "done" /\ exitCode /= 0) => result \in AxiosFailures
    /\ \A i \in 1..Len(out) :
         out[i].stream = "error" => out[i].text = "Error creating webhook:"
    /\ transactionTypes = <<>>
    /\ Len(prefilledAddresses) > 0 <=> UpstreamConfirmed
    /\ Len(prefilledAddresses) > 0 => prefilledAddresses = nftAddresses
    /\ \A i \in CreateCalls :
         net[i].body =
           [webhookURL |-> basicAnswers.webhookURL,
            webhookType |-> basicAnswers.webhookType,
            authHeader |-> IF basicAnswers.authHeader = <<>>
                           THEN undefined ELSE basicAnswers.authHeader,
            txnStatus |-> basicAnswers.txnStatus,
            transactionTypes |-> basicAnswers.transactionTypes,
            accountAddresses |->
              prefilledAddresses
                \o (IF WorkflowConfirmed THEN nftAddresses ELSE <<>>)
                \o Entries(AnswerTo("accountAddresses"))]

\* C30 witness: an interactive run has sent its request, made of the
\* confirmed addresses of --collection and of the answers, with no option of
\* the command line mode read
C30_Witness ==
  /\ InteractiveMode
  /\ pc = "creating"
  /\ options.collection = <<"c">>
  /\ Len(prefilledAddresses) = 2
  /\ options.url = unread
  /\ net[Len(net)].body.webhookURL = basicAnswers.webhookURL
  /\ net[Len(net)].body.accountAddresses = prefilledAddresses \o << <<"A">> >>

====
